---- MODULE Spec2Model ----
(***************************************************************************)
(* Cosmic-ray detection and repair, findCosmicRays of src/src/CR.cc, as a  *)
(* state machine.  One call of findCosmicRays is one behaviour: Init draws *)
(* the masked image, the policy and the keep flag, and each action is one  *)
(* phase of the function body, in program order.                           *)
(*                                                                         *)
(* Pixel values, variances and the real-valued policy entries are fixed    *)
(* point numbers: the integer n stands for n / Scale.  Halving a value is  *)
(* exact as long as the value is a multiple of 2, which holds for every    *)
(* value the bounded inputs below can produce.                             *)
(***************************************************************************)
EXTENDS Integers, Sequences, FiniteSets, TLC

\* ---- bounds of the model ------------------------------------------------
NCol == 5
NRow == 5
MaxHot == 3
MaxIter == 1

\* ---- fixed point arithmetic ---------------------------------------------
Scale == 64

Half(a) == a \div 2

Mul(a, b) == (a * b) \div Scale

\* conversion of a floating point value to int truncates towards zero
ToInt(a) == IF a >= 0 THEN a \div Scale ELSE -((-a) \div Scale)

FromInt(n) == n * Scale

RECURSIVE SqrtSearch(_, _, _)
SqrtSearch(n, lo, hi) ==
    IF lo >= hi THEN lo
    ELSE LET mid == (lo + hi + 1) \div 2
         IN  IF mid * mid <= n THEN SqrtSearch(n, mid, hi)
                               ELSE SqrtSearch(n, lo, mid - 1)

\* sqrt of a fixed point value, rounded down to the fixed point grid; the
\* root of v * Scale is at most the larger of v and Scale
Sqrt(v) ==
    IF v <= 0 THEN 0
    ELSE LET n == v * Scale
             hi == IF v > Scale THEN v ELSE Scale
         IN  IF hi * hi <= n THEN hi ELSE SqrtSearch(n, 0, hi - 1)

\* ---- the masked image ---------------------------------------------------
Pix == (0 .. NCol - 1) \X (0 .. NRow - 1)

Interior == (1 .. NCol - 2) \X (1 .. NRow - 2)

InImage(x, y) == x >= 0 /\ x < NCol /\ y >= 0 /\ y < NRow

badBit == "BAD"
crBit == "CR"
interpBit == "INTRP"
saturBit == "SAT"
badMask == {badBit, interpBit, saturBit}

\* unsubtracted background of the frame
bkgd == 0

\* psf.getValue(dx, dy) at the three offsets the thresholds use
psfValue == [h |-> Scale \div 2, v |-> Scale \div 2, d |-> Scale \div 4]

\* ---- inputs -------------------------------------------------------------
\* pixel values: Hot is a CR that passes condition #1, Faint (50.5) is detected
\* but too faint for condition #1, Warm passes only the test of a growth pass
Warm == 3 * Scale
Faint == 50 * Scale + Scale \div 2
Hot == 100 * Scale
HotVals == {Faint, Hot}

\* a pixel too low for the sweep that a growth pass takes
WarmCells == {<<2, 1>>}

\* a low pixel that may lie between the hot ones
Dim == Scale
DimCells == {<<2, 2>>}

HotCells == {<<1, 1>>, <<1, 2>>, <<2, 2>>, <<3, 2>>, <<1, 3>>}

MaskCells == {<<3, 2>>}

\* mask planes a pixel may carry before the call
PreBits == {saturBit, interpBit, crBit}

Origins == {<<0, 0>>, <<1, 1>>}

\* what interp::singlePixel answers in the two directions; failed stands for
\* the returned numeric_limits::min()
SinglePixelCases ==
    {[h_failed |-> TRUE, v_failed |-> TRUE, val_h |-> 0, val_v |-> 0],
     [h_failed |-> FALSE, v_failed |-> FALSE, val_h |-> bkgd, val_v |-> bkgd]}

\* policies with a valid gain and every niteration, policies with a gain
\* that is not positive, and a policy whose min_e (50.75) is not a whole number
Policies ==
    [e_per_dn : {Scale}, min_sigma : {Scale}, min_e : {80 * Scale},
     cond3_fac : {2 * Scale}, cond3_fac2 : {Scale \div 2},
     niteration : 0 .. MaxIter]
    \cup
    [e_per_dn : {-Scale, 0}, min_sigma : {Scale}, min_e : {80 * Scale},
     cond3_fac : {2 * Scale}, cond3_fac2 : {Scale \div 2},
     niteration : {0}]
    \cup
    [e_per_dn : {Scale}, min_sigma : {Scale}, min_e : {50 * Scale + (3 * Scale) \div 4},
     cond3_fac : {2 * Scale}, cond3_fac2 : {Scale \div 2},
     niteration : {0}]

VARIABLES pc, img, variance, mask, img0, mask0, keep, policy, origin,
          crpixels, ctr, aliases, spans, CRs, iter, nextra, writer, oob, single

\* the PSF values and the background handed to the pixel test, and the answer
\* of one call of is_cr_pixel
VARIABLES psf, sky, tested

\* PSF fitting (SpatialModelPsf.cc): the candidates, what each visitor has
\* accumulated, whether FillABVisitor printed an index mismatch, the image
\* subtractPsf works on, the exception that left the last call, the last call,
\* the calls so far
VARIABLES cands, pca, nCount, chi2, matA, vecB, idxWarn, image, err, last, visits

\* the PSF factory registry (PSF.cc): the static map, the last call with its
\* outcome, and the calls of declare that returned
VARIABLES psfRegistry, regLast, declared

\* the background step of createKernelFromPsfCandidates (SpatialModelPsf.cc):
\* the eigen-images of the PCA, the number of components asked for, and for
\* each image treated the sum, the count and the divisor of its border
VARIABLES eigenImages, nEigenComponents, bkg

\* the linear fit of the spatial model (fitSpatialKernelFromPsfCandidates with
\* doNonLinearFit = false): where the call is, the kernel with its spatial
\* parameters, the arguments, and what the call has built and returned
VARIABLES linPc, linKernel, linCall, linOut

\* the growth of one span of a CR in an image of any size: the size of the
\* image with the span, and the pixels handed to is_cr_pixel
VARIABLES spanIn, spanOut

vars == <<pc, img, variance, mask, img0, mask0, keep, policy, origin,
          crpixels, ctr, aliases, spans, CRs, iter, nextra, writer, oob, single>>

pixvars == <<psf, sky, tested>>

fitvars == <<cands, pca, nCount, chi2, matA, vecB, idxWarn, image, err, last, visits>>

regvars == <<psfRegistry, regLast, declared>>

bkgvars == <<eigenImages, nEigenComponents, bkg>>

linvars == <<linPc, linKernel, linCall, linOut>>

spanvars == <<spanIn, spanOut>>

extvars == <<bkgvars, linvars, spanvars>>

\* what a call of findCosmicRays leaves alone
othervars == <<pixvars, fitvars, regvars, extvars>>

allvars == <<vars, pixvars, fitvars, regvars, extvars>>

\* no pixel has been handed to is_cr_pixel on its own
NoTest == [done |-> FALSE, cr |-> FALSE, corr |-> 0, by |-> "none"]

\* nothing of the PSF fitting code is in use
FitIdle ==
    /\ cands = <<>>
    /\ pca = <<>>
    /\ nCount = 0
    /\ chi2 = 0
    /\ matA = <<>>
    /\ vecB = <<>>
    /\ idxWarn = FALSE
    /\ image = <<>>
    /\ err = "none"
    /\ last = [op |-> "none", k |-> 0, m |-> <<>>, built |-> FALSE, x |-> <<>>, chisq |-> 0]
    /\ visits = 0

\* the registry is not in use
RegIdle ==
    /\ psfRegistry = {}
    /\ regLast = [op |-> "none", name |-> "", factory |-> "", result |-> "", thrown |-> "none"]
    /\ declared = {}

\* createKernelFromPsfCandidates has not been called
BkgIdle ==
    /\ eigenImages = <<>>
    /\ nEigenComponents = 0
    /\ bkg = <<>>

\* the linear fit has not been called
LinIdle ==
    /\ linPc = "idle"
    /\ linKernel = [nComponents |-> 0, nSpatialParams |-> 0, params |-> <<>>]
    /\ linCall = [cands |-> <<>>, nStarPerCell |-> 0, isLinearCombination |-> TRUE]
    /\ linOut = [bSize |-> 0, nFilled |-> 0, chi2 |-> 0, thrown |-> "none", isValid |-> FALSE]

\* no span is being grown on its own
SpanIdle ==
    /\ spanIn = [ncol |-> 0, nrow |-> 0, y |-> 0, x0 |-> 0, x1 |-> 0]
    /\ spanOut = [done |-> FALSE, tested |-> {}]

ExtIdle == BkgIdle /\ LinIdle /\ SpanIdle

\* findCosmicRays is not running
CRIdle ==
    /\ pc = "idle"
    /\ img = [p \in Pix |-> 0]
    /\ variance = [p \in Pix |-> Scale]
    /\ mask = [p \in Pix |-> {}]
    /\ img0 = img
    /\ mask0 = mask
    /\ keep = FALSE
    /\ policy = [e_per_dn |-> Scale, min_sigma |-> Scale, min_e |-> 0, cond3_fac |-> 0, cond3_fac2 |-> 0, niteration |-> 0]
    /\ origin = <<0, 0>>
    /\ crpixels = <<>>
    /\ ctr = 0
    /\ aliases = <<>>
    /\ spans = <<>>
    /\ CRs = <<>>
    /\ iter = 0
    /\ nextra = 0
    /\ writer = [p \in Pix |-> "none"]
    /\ oob = FALSE
    /\ single = [h_failed |-> TRUE, v_failed |-> TRUE, val_h |-> 0, val_v |-> 0]

\* the PSF of the pixel test is not in use
PixIdle ==
    /\ psf = [h |-> 0, v |-> 0, d |-> 0]
    /\ sky = 0
    /\ tested = NoTest

\* ---- CRPixel ------------------------------------------------------------
\* the constructor takes the value as int; idx is the running index _i
CRPixel(_col, _row, _val, _id, n) ==
    [id |-> _id, col |-> _col, row |-> _row, val |-> FromInt(ToInt(_val)), idx |-> n]

\* ---- the pixel test -----------------------------------------------------
\* variant that tests the WE direction before the NS direction
condition_3WEFirst(peak, mean_ns, mean_we, mean_swne, mean_nwse, dpeak, dmean_ns, dmean_we, dmean_swne, dmean_nwse, thres_h, thres_v, thres_d, e_per_dn, cond3_fac) ==
    IF Mul(thres_h, peak - Mul(cond3_fac, dpeak)) > mean_we + Mul(cond3_fac, dmean_we)
    THEN [ok |-> TRUE, estimate |-> mean_we]
    ELSE IF Mul(thres_v, peak - Mul(cond3_fac, dpeak)) > mean_ns + Mul(cond3_fac, dmean_ns)
    THEN [ok |-> TRUE, estimate |-> mean_ns]
    ELSE IF Mul(thres_d, peak - Mul(cond3_fac, dpeak)) > mean_swne + Mul(cond3_fac, dmean_swne)
    THEN [ok |-> TRUE, estimate |-> mean_swne]
    ELSE IF Mul(thres_d, peak - Mul(cond3_fac, dpeak)) > mean_nwse + Mul(cond3_fac, dmean_nwse)
    THEN [ok |-> TRUE, estimate |-> mean_nwse]
    ELSE [ok |-> FALSE, estimate |-> 0]

condition_3(peak, mean_ns, mean_we, mean_swne, mean_nwse, dpeak, dmean_ns, dmean_we, dmean_swne, dmean_nwse, thres_h, thres_v, thres_d, e_per_dn, cond3_fac) ==
    IF Mul(thres_v, peak - Mul(cond3_fac, dpeak)) > mean_ns + Mul(cond3_fac, dmean_ns)
    THEN [ok |-> TRUE, estimate |-> mean_ns]
    ELSE IF Mul(thres_h, peak - Mul(cond3_fac, dpeak)) > mean_we + Mul(cond3_fac, dmean_we)
    THEN [ok |-> TRUE, estimate |-> mean_we]
    ELSE IF Mul(thres_d, peak - Mul(cond3_fac, dpeak)) > mean_swne + Mul(cond3_fac, dmean_swne)
    THEN [ok |-> TRUE, estimate |-> mean_swne]
    ELSE IF Mul(thres_d, peak - Mul(cond3_fac, dpeak)) > mean_nwse + Mul(cond3_fac, dmean_nwse)
    THEN [ok |-> TRUE, estimate |-> mean_nwse]
    ELSE [ok |-> FALSE, estimate |-> 0]

\* min_sigma arrives here as an int
is_cr_pixel(im, x, y, min_sigma, thres_h, thres_v, thres_d, bk, e_per_dn, cond3_fac) ==
    LET v_00      == im[<<x, y>>]
        mean_we   == Half(im[<<x - 1, y>>] + im[<<x + 1, y>>])
        mean_ns   == Half(im[<<x, y + 1>>] + im[<<x, y - 1>>])
        mean_swne == Half(im[<<x - 1, y - 1>>] + im[<<x + 1, y + 1>>])
        mean_nwse == Half(im[<<x - 1, y + 1>>] + im[<<x + 1, y - 1>>])
        thres_sky_sigma == min_sigma * Sqrt(variance[<<x, y>>])
        dv_00      == Sqrt(variance[<<x, y>>])
        dmean_we   == Half(Sqrt(variance[<<x - 1, y>>] + variance[<<x + 1, y>>]))
        dmean_ns   == Half(Sqrt(variance[<<x, y + 1>>] + variance[<<x, y - 1>>]))
        dmean_swne == Half(Sqrt(variance[<<x - 1, y - 1>>] + variance[<<x + 1, y + 1>>]))
        dmean_nwse == Half(Sqrt(variance[<<x - 1, y + 1>>] + variance[<<x + 1, y - 1>>]))
        c3 == condition_3(v_00 - bk, mean_ns - bk, mean_we - bk, mean_swne - bk, mean_nwse - bk,
                          dv_00, dmean_ns, dmean_we, dmean_swne, dmean_nwse,
                          thres_h, thres_v, thres_d, e_per_dn, cond3_fac)
    IN  IF v_00 < 0 THEN [cr |-> FALSE, corr |-> 0, by |-> "negative"]
        ELSE IF min_sigma < 0 /\ v_00 < FromInt(-min_sigma) THEN [cr |-> FALSE, corr |-> 0, by |-> "condition 2"]
        ELSE IF min_sigma >= 0
                /\ v_00 < mean_ns + thres_sky_sigma
                /\ v_00 < mean_we + thres_sky_sigma
                /\ v_00 < mean_swne + thres_sky_sigma
                /\ v_00 < mean_nwse + thres_sky_sigma THEN [cr |-> FALSE, corr |-> 0, by |-> "condition 2"]
        ELSE IF ~c3.ok THEN [cr |-> FALSE, corr |-> 0, by |-> "condition 3"]
        ELSE [cr |-> TRUE, corr |-> c3.estimate + bk, by |-> "none"]

\* thresholds for the third condition
thres_h == Mul(policy.cond3_fac2, psf.h)
thres_v == Mul(policy.cond3_fac2, psf.v)
thres_d == Mul(policy.cond3_fac2, psf.d)

\* the min_sigma the pixel test receives: is_cr_pixel and checkSpanForCRs take
\* it as an int; the sweep passes min_sigma, a growth pass min_sigma/2 together
\* with a cond3_fac of 0
sweep_min_sigma == ToInt(policy.min_sigma)
grow_min_sigma == ToInt(Half(policy.min_sigma))
grow_cond3_fac == 0

\* ---- the initial sweep --------------------------------------------------
\* variant that tests every pixel against the image as it was before the sweep
RECURSIVE sweepOnOriginal(_, _)
sweepOnOriginal(k, st) ==
    IF k > (NCol - 2) * (NRow - 2) THEN st
    ELSE LET i == 1 + ((k - 1) % (NCol - 2))
             j == 1 + ((k - 1) \div (NCol - 2))
             t == is_cr_pixel(img, i, j, sweep_min_sigma,
                              thres_h, thres_v, thres_d, bkgd, policy.e_per_dn, policy.cond3_fac)
         IN  IF ~t.cr THEN sweepOnOriginal(k + 1, st)
             ELSE IF mask[<<i, j>>] \cap badMask # {} THEN sweepOnOriginal(k + 1, st)
             ELSE sweepOnOriginal(k + 1,
                        [img |-> [st.img EXCEPT ![<<i, j>>] = t.corr],
                         crpixels |-> Append(st.crpixels,
                                             CRPixel(i, j, st.img[<<i, j>>], -1, st.ctr + 1)),
                         ctr |-> st.ctr + 1])

\* st = [img, crpixels, ctr]; k counts the interior pixels in row-major order
RECURSIVE sweep(_, _)
sweep(k, st) ==
    IF k > (NCol - 2) * (NRow - 2) THEN st
    ELSE LET i == 1 + ((k - 1) % (NCol - 2))
             j == 1 + ((k - 1) \div (NCol - 2))
             t == is_cr_pixel(st.img, i, j, sweep_min_sigma,
                              thres_h, thres_v, thres_d, bkgd, policy.e_per_dn, policy.cond3_fac)
         IN  IF ~t.cr THEN sweep(k + 1, st)
             ELSE IF mask[<<i, j>>] \cap badMask # {} THEN sweep(k + 1, st)
             ELSE sweep(k + 1,
                        [img |-> [st.img EXCEPT ![<<i, j>>] = t.corr],
                         crpixels |-> Append(st.crpixels,
                                             CRPixel(i, j, st.img[<<i, j>>], -1, st.ctr + 1)),
                         ctr |-> st.ctr + 1])

\* pixels named by a list of CRPixels (the sentinel has row -1)
PixelsOf(cps) == {<<cps[n].col, cps[n].row>> : n \in {m \in 1 .. Len(cps) : cps[m].row >= 0}}

Init ==
    /\ pc = "start"
    /\ \E hs \in SUBSET HotCells :
          /\ Cardinality(hs) <= MaxHot
          /\ \E f \in [hs -> HotVals] : \E ws \in SUBSET WarmCells : \E ds \in SUBSET DimCells :
                img = [p \in Pix |-> IF p \in hs THEN f[p]
                                     ELSE IF p \in ws THEN Warm
                                     ELSE IF p \in ds THEN Dim ELSE bkgd]
    /\ variance = [p \in Pix |-> Scale]
    /\ \E bits \in {{}} \cup {{b} : b \in PreBits} :
          mask = [p \in Pix |-> IF p \in MaskCells THEN bits ELSE {}]
    /\ img0 = img
    /\ mask0 = mask
    /\ keep \in BOOLEAN
    /\ policy \in Policies
    /\ origin \in Origins
    /\ crpixels = <<>>
    /\ ctr = 0
    /\ aliases = <<>>
    /\ spans = <<>>
    /\ CRs = <<>>
    /\ iter = 0
    /\ nextra = 0
    /\ writer = [p \in Pix |-> "none"]
    /\ oob = FALSE
    /\ single \in SinglePixelCases
    /\ psf = psfValue
    /\ sky = bkgd
    /\ tested = NoTest
    /\ FitIdle
    /\ RegIdle
    /\ ExtIdle

\* variant without the assertion on e_per_dn: the sweep always runs
CheckPolicyUnchecked ==
    /\ pc = "start"
    /\ pc' = "sweep"
    /\ UNCHANGED <<img, variance, mask, img0, mask0, keep, policy, origin,
                   crpixels, ctr, aliases, spans, CRs, iter, nextra, writer, oob, single>>
    /\ UNCHANGED othervars

\* assert(e_per_dn > 0.0), before the image is touched (an assert of <cassert>:
\* the call aborts when it fails)
CheckPolicy ==
    /\ pc = "start"
    /\ pc' = IF policy.e_per_dn > 0 THEN "sweep" ELSE "aborted"
    /\ UNCHANGED <<img, variance, mask, img0, mask0, keep, policy, origin,
                   crpixels, ctr, aliases, spans, CRs, iter, nextra, writer, oob, single>>
    /\ UNCHANGED othervars

InitialSweep ==
    /\ pc = "sweep"
    /\ \E r \in {sweep(1, [img |-> img, crpixels |-> <<>>, ctr |-> ctr])} :
           /\ img' = r.img
           /\ crpixels' = r.crpixels
           /\ ctr' = r.ctr
           /\ \E hit \in {PixelsOf(r.crpixels)} :
                 writer' = [p \in Pix |-> IF p \in hit THEN "estimate" ELSE writer[p]]
    /\ pc' = "label"
    /\ UNCHANGED <<variance, mask, img0, mask0, keep, policy, origin,
                   aliases, spans, CRs, iter, nextra, oob, single>>
    /\ UNCHANGED othervars

\* ---- component labelling ------------------------------------------------
\* variant that follows one alias only
resolve_aliasOneStep(al, id) == al[id + 1]

\* the alias vector is 0-based: the entry of id is aliases[id + 1]
RECURSIVE resolve_alias(_, _)
resolve_alias(al, id) ==
    IF id = al[id + 1] THEN id ELSE resolve_alias(al, al[id + 1])

IdSpan(id, y, x0, x1) == [id |-> id, y |-> y, x0 |-> x0, x1 |-> x1]

\* the loop over crpixels.begin() .. crpixels.end() - 2 that cuts the pixels
\* into horizontal runs; st = [crpixels, aliases, spans, ncr, x0, x1, y]
RECURSIVE makeSpans(_, _)
makeSpans(k, st) ==
    IF k >= Len(st.crpixels) THEN st
    ELSE LET fresh == st.crpixels[k].id < 0
             ncr   == IF fresh THEN st.ncr + 1 ELSE st.ncr
             id    == IF fresh THEN ncr ELSE st.crpixels[k].id
             al    == IF fresh THEN Append(st.aliases, id) ELSE st.aliases
             y     == IF fresh THEN st.crpixels[k].row ELSE st.y
             x0    == IF fresh THEN st.crpixels[k].col ELSE st.x0
             x1    == IF fresh THEN st.crpixels[k].col ELSE st.x1
             cps   == [st.crpixels EXCEPT ![k].id = id]
         IN  IF cps[k + 1].row = cps[k].row /\ cps[k + 1].col = cps[k].col + 1
             THEN makeSpans(k + 1, [crpixels |-> [cps EXCEPT ![k + 1].id = id],
                                    aliases |-> al, spans |-> st.spans, ncr |-> ncr,
                                    x0 |-> x0, x1 |-> x1 + 1, y |-> y])
             ELSE makeSpans(k + 1, [crpixels |-> cps,
                                    aliases |-> al,
                                    spans |-> Append(st.spans, IdSpan(id, y, x0, x1)),
                                    ncr |-> ncr, x0 |-> x0, x1 |-> x1, y |-> y])

\* variant of the inner loop that takes spans to touch only when their column
\* ranges overlap, so that spans meeting at a corner stay apart
RECURSIVE touchInnerNoCorner(_, _, _, _)
touchInnerNoCorner(sps, s, s2, al) ==
    IF s2 > Len(sps) THEN al
    ELSE IF sps[s2].y = sps[s].y THEN touchInnerNoCorner(sps, s, s2 + 1, al)
    ELSE IF sps[s2].y # sps[s].y + 1 \/ sps[s2].x0 > sps[s].x1 THEN al
    ELSE IF sps[s2].x1 >= sps[s].x0
    THEN touchInnerNoCorner(sps, s, s2 + 1,
                    [al EXCEPT ![resolve_alias(al, sps[s].id) + 1] = resolve_alias(al, sps[s2].id)])
    ELSE touchInnerNoCorner(sps, s, s2 + 1, al)

\* the inner loop over sp2 = sp + 1 .. end for the span at index s
RECURSIVE touchInner(_, _, _, _)
touchInner(sps, s, s2, al) ==
    IF s2 > Len(sps) THEN al
    ELSE IF sps[s2].y = sps[s].y THEN touchInner(sps, s, s2 + 1, al)
    ELSE IF sps[s2].y # sps[s].y + 1 \/ sps[s2].x0 > sps[s].x1 + 1 THEN al
    ELSE IF sps[s2].x1 >= sps[s].x0 - 1
    THEN touchInner(sps, s, s2 + 1,
                    [al EXCEPT ![resolve_alias(al, sps[s].id) + 1] = resolve_alias(al, sps[s2].id)])
    ELSE touchInner(sps, s, s2 + 1, al)

RECURSIVE touchSpans(_, _, _)
touchSpans(sps, s, al) ==
    IF s > Len(sps) THEN al
    ELSE touchSpans(sps, s + 1, touchInner(sps, s, s + 1, al))

resolveSpans(sps, al) ==
    [n \in 1 .. Len(sps) |-> [sps[n] EXCEPT !.id = resolve_alias(al, sps[n].id)]]

\* IdSpanCompar: by id, then by row
IdSpanCompar(a, b) == IF a.id < b.id THEN TRUE ELSE IF a.id > b.id THEN FALSE ELSE a.y < b.y

RECURSIVE insertSpan(_, _)
insertSpan(sorted, sp) ==
    IF sorted = <<>> THEN <<sp>>
    ELSE IF IdSpanCompar(sp, sorted[Len(sorted)])
         THEN Append(insertSpan(SubSeq(sorted, 1, Len(sorted) - 1), sp), sorted[Len(sorted)])
         ELSE Append(sorted, sp)

RECURSIVE sortSpans(_)
sortSpans(sps) ==
    IF sps = <<>> THEN <<>>
    ELSE insertSpan(sortSpans(SubSeq(sps, 1, Len(sps) - 1)), sps[Len(sps)])

\* ---- Footprint (afw) ----------------------------------------------------
Span(y, x0, x1) == [y |-> y, x0 |-> x0, x1 |-> x1]

EmptyFootprint == [spans |-> <<>>, npix |-> 0]

addSpan(fp, y, x0, x1) ==
    [spans |-> Append(fp.spans, Span(y, x0, x1)), npix |-> fp.npix + (x1 - x0 + 1)]

\* pixels of a Footprint, in the coordinates of the parent image
FootprintPixels(fp) ==
    UNION {{<<x, fp.spans[n].y>> : x \in fp.spans[n].x0 .. fp.spans[n].x1} : n \in 1 .. Len(fp.spans)}

\* the same pixels as indices into the image
LocalPixels(fp) == {<<p[1] - origin[1], p[2] - origin[2]>> : p \in FootprintPixels(fp)}

\* build one Footprint per run of equal ids in the sorted span list
RECURSIVE buildFootprints(_, _, _, _, _)
buildFootprints(sps, i, i0, id, crs) ==
    IF i > Len(sps) + 1 THEN crs
    ELSE LET close == i = Len(sps) + 1 \/ sps[i].id # id
             RECURSIVE fill(_, _)
             fill(n, fp) == IF n >= i THEN fp
                            ELSE fill(n + 1, addSpan(fp, sps[n].y + origin[2],
                                                     sps[n].x0 + origin[1], sps[n].x1 + origin[1]))
         IN  buildFootprints(sps, i + 1,
                             IF close THEN i ELSE i0,
                             IF i <= Len(sps) THEN sps[i].id ELSE id,
                             IF close THEN Append(crs, fill(i0, EmptyFootprint)) ELSE crs)

LabelComponents ==
    /\ pc = "label"
    /\ LET withDummy == IF Len(crpixels) > 0
                        THEN Append(crpixels, CRPixel(0, -1, 0, -1, ctr + 1))
                        ELSE crpixels
           st == IF Len(crpixels) > 0
                 THEN makeSpans(1, [crpixels |-> withDummy, aliases |-> <<0>>, spans |-> <<>>,
                                    ncr |-> 0, x0 |-> -1, x1 |-> -1, y |-> -1])
                 ELSE [crpixels |-> crpixels, aliases |-> <<0>>, spans |-> <<>>]
       IN  \E s1 \in {st} :
           \E al \in {touchSpans(s1.spans, 1, s1.aliases)} :
           \E sorted \in {sortSpans(resolveSpans(s1.spans, al))} :
               /\ crpixels' = s1.crpixels
               /\ ctr' = IF Len(crpixels) > 0 THEN ctr + 1 ELSE ctr
               /\ aliases' = al
               /\ spans' = sorted
               /\ CRs' = IF Len(sorted) > 0
                         THEN buildFootprints(sorted, 1, 1, sorted[1].id, <<>>)
                         ELSE <<>>
    /\ pc' = "reinstate"
    /\ UNCHANGED <<img, variance, mask, img0, mask0, keep, policy, origin,
                   iter, nextra, writer, oob, single>>
    /\ UNCHANGED othervars


\* ---- reinstate the detected pixels --------------------------------------
\* mimage.at(col - X0, row - Y0).image() = val for every CRPixel but the last;
\* r = [img, hit, oob]: the image, the pixels written, a write off the image
RECURSIVE reinstate(_, _, _)
reinstate(cps, k, r) ==
    IF k >= Len(cps) THEN r
    ELSE LET x == cps[k].col - origin[1]
             y == cps[k].row - origin[2]
         IN  IF InImage(x, y)
             THEN reinstate(cps, k + 1, [img |-> [r.img EXCEPT ![<<x, y>>] = cps[k].val],
                                         hit |-> r.hit \cup {<<x, y>>}, oob |-> r.oob])
             ELSE reinstate(cps, k + 1, [r EXCEPT !.oob = TRUE])

\* With no detected pixel the list is empty and crpixels.end() - 1 lies before
\* the start of the list: the loop test is undefined, and the loop is either
\* not entered or reads a CRPixel that is not there.
ReinstatePixels ==
    /\ pc = "reinstate"
    /\ IF Len(crpixels) = 0
       THEN /\ \/ pc' = "cond1" /\ oob' = oob
               \/ pc' = "crashed" /\ oob' = TRUE
            /\ UNCHANGED <<img, writer>>
       ELSE \E r \in {reinstate(crpixels, 1, [img |-> img, hit |-> {}, oob |-> oob])} :
                /\ img' = r.img
                /\ oob' = r.oob
                /\ writer' = [p \in Pix |-> IF p \in r.hit THEN "reinstate" ELSE writer[p]]
                /\ pc' = "cond1"
    /\ UNCHANGED <<variance, mask, img0, mask0, keep, policy, origin,
                   crpixels, ctr, aliases, spans, CRs, iter, nextra, single>>
    /\ UNCHANGED othervars

\* ---- condition #1 -------------------------------------------------------
RECURSIVE SumOver(_, _)
SumOver(im, ps) ==
    IF ps = {} THEN 0
    ELSE LET p == CHOOSE q \in ps : TRUE IN (im[p] - bkgd) + SumOver(im, ps \ {p})

\* CountsInCR applied to one Footprint
CountsInCR(im, fp) == SumOver(im, LocalPixels(fp))

\* getCounts() < min_e / e_per_dn, min_e being an int
tooFaint(im, fp) == CountsInCR(im, fp) * policy.e_per_dn < FromInt(ToInt(policy.min_e)) * Scale

RemoveAt(seq, i) == SubSeq(seq, 1, i - 1) \o SubSeq(seq, i + 1, Len(seq))

\* the erase loop: an erased entry is followed by --cr, ++cr; when the entry
\* erased is the first, --cr steps before CRs.begin(), which is undefined
RECURSIVE condition_1(_, _, _)
condition_1(im, crs, i) ==
    IF i > Len(crs) THEN crs
    ELSE IF tooFaint(im, crs[i]) THEN condition_1(im, RemoveAt(crs, i), i)
    ELSE condition_1(im, crs, i + 1)

ApplyCondition1 ==
    /\ pc = "cond1"
    /\ CRs' = condition_1(img, CRs, 1)
    /\ pc' \in IF Len(CRs) > 0 /\ tooFaint(img, CRs[1]) THEN {"remove", "crashed"} ELSE {"remove"}
    /\ UNCHANGED <<img, variance, mask, img0, mask0, keep, policy, origin,
                   crpixels, ctr, aliases, spans, iter, nextra, writer, oob, single>>
    /\ UNCHANGED othervars


\* ---- interpolation over a CR's pixels -----------------------------------
\* Interp.h: the 4-point local-polynomial weights and the bias of the minimum
\* of two Gaussians (0.7737, -0.2737, 0.7874, -0.2874, 0.5642)
lpc_1_c1 == (7737 * Scale) \div 10000
lpc_1_c2 == -((2737 * Scale) \div 10000)
lpc_1s2_c1 == (7874 * Scale) \div 10000
lpc_1s2_c2 == -((2874 * Scale) \div 10000)
min_2Gaussian_bias == (5642 * Scale) \div 10000

\* numeric_limits<ImageT>::max()
PixelMax == 1000000 * Scale

\* NaN or an infinity: the result of a division by 0.0, kept as one value
\* outside the range of the pixel values
NonFinite == -(2 * PixelMax)

\* rand() / (float) RAND_MAX lies in [0, 1]; one value of that range
gaussdev == Scale \div 2

\* the four estimates in the order of the code: support offsets as they
\* appear in the contamination test (..m2, ..m1, ..p1, ..p2) and the axes
\* whose range is tested first
Estimates ==
    << [needX |-> TRUE,  needY |-> FALSE, c1 |-> lpc_1_c1,   c2 |-> lpc_1_c2,
        off |-> << <<-2, 0>>, <<-1, 0>>, <<1, 0>>, <<2, 0>> >>],
       [needX |-> FALSE, needY |-> TRUE,  c1 |-> lpc_1_c1,   c2 |-> lpc_1_c2,
        off |-> << <<0, -2>>, <<0, -1>>, <<0, 1>>, <<0, 2>> >>],
       [needX |-> TRUE,  needY |-> TRUE,  c1 |-> lpc_1s2_c1, c2 |-> lpc_1s2_c2,
        off |-> << <<-2, -2>>, <<-1, -1>>, <<1, 1>>, <<2, 2>> >>],
       [needX |-> TRUE,  needY |-> TRUE,  c1 |-> lpc_1s2_c1, c2 |-> lpc_1s2_c2,
        off |-> << <<2, -2>>, <<1, -1>>, <<-1, 1>>, <<-2, 2>> >>] >>

ImageAt(im, x, y) == IF InImage(x, y) THEN im[<<x, y>>] ELSE 0

MaskAt(msk, x, y) == IF InImage(x, y) THEN msk[<<x, y>>] ELSE {}

\* (loc.mask(..) | _badMask) taken as a truth value
maskTest(m) == (m \cup badMask) # {}

\* one call of RemoveCR::operator(): x, y are the coordinates the functor is
\* handed (those of the Footprint), lx, ly the pixel the locator points at.
\* The result is the value written, whether a pixel off the image was read,
\* the estimates that were computed and whether the bias was subtracted.
RemoveCR(im, msk, x, y, lx, ly, debias) ==
    LET sd == Sqrt(variance[<<lx, ly>>])
        minval == bkgd - 2 * sd
        inRange(e) == /\ (e.needX => (x - 2 >= 0 /\ x + 2 < NCol))
                      /\ (e.needY => (y - 2 >= 0 /\ y + 2 < NRow))
        test(e, k) == maskTest(MaskAt(msk, lx + e.off[k][1], ly + e.off[k][2]))
        \* the tests are joined by ||: operand k is read if all before it failed
        isRead(e, k) == \A j \in 1 .. k - 1 : ~test(e, j)
        contaminated(e) == \E k \in 1 .. 4 : test(e, k)
        offImage(e) == \/ \E k \in 1 .. 4 : /\ isRead(e, k)
                                             /\ ~InImage(lx + e.off[k][1], ly + e.off[k][2])
                       \/ /\ ~contaminated(e)
                          /\ \E k \in 1 .. 4 : ~InImage(lx + e.off[k][1], ly + e.off[k][2])
        v(e, k) == ImageAt(im, lx + e.off[k][1], ly + e.off[k][2])
        tmp(e) == Mul(e.c1, v(e, 2) + v(e, 3)) + Mul(e.c2, v(e, 1) + v(e, 4))
        RECURSIVE estimate(_, _)
        estimate(n, r) ==
            IF n > Len(Estimates) THEN r
            ELSE LET e == Estimates[n]
                 IN  IF ~inRange(e) THEN estimate(n + 1, r)
                     ELSE IF contaminated(e)
                     THEN estimate(n + 1, [r EXCEPT !.oob = r.oob \/ offImage(e)])
                     ELSE IF tmp(e) > minval /\ tmp(e) < r.min
                     THEN estimate(n + 1, [min |-> tmp(e), ngood |-> r.ngood + 1,
                                           oob |-> r.oob \/ offImage(e),
                                           used |-> r.used \cup {n}])
                     ELSE estimate(n + 1, [r EXCEPT !.oob = r.oob \/ offImage(e),
                                                    !.used = r.used \cup {n}])
        r4 == estimate(1, [min |-> PixelMax, ngood |-> 0, oob |-> FALSE, used |-> {}])
        fallback == IF single.h_failed
                    THEN IF single.v_failed THEN bkgd + Mul(sd, gaussdev) ELSE single.val_v
                    ELSE IF single.v_failed THEN single.val_h
                                            ELSE Half(single.val_v + single.val_h)
        min1 == IF r4.ngood = 0 THEN fallback ELSE r4.min
        min2 == IF debias /\ r4.ngood > 1 THEN min1 - Mul(min_2Gaussian_bias, sd) ELSE min1
    IN  [val |-> min2, oob |-> r4.oob, ngood |-> r4.ngood, used |-> r4.used,
         debiased |-> debias /\ r4.ngood > 1]

\* FootprintFunctor::apply: every pixel of every span, in span order;
\* r = [img, hit, oob]
RECURSIVE applyRemoveCR(_, _, _, _, _, _)
applyRemoveCR(fp, n, x, msk, debias, r) ==
    IF n > Len(fp.spans) THEN r
    ELSE IF x > fp.spans[n].x1
    THEN IF n + 1 > Len(fp.spans) THEN r
         ELSE applyRemoveCR(fp, n + 1, fp.spans[n + 1].x0, msk, debias, r)
    ELSE LET y == fp.spans[n].y
             lx == x - origin[1]
             ly == y - origin[2]
             c == RemoveCR(r.img, msk, x, y, lx, ly, debias)
         IN  applyRemoveCR(fp, n, x + 1, msk, debias,
                           [img |-> [r.img EXCEPT ![<<lx, ly>>] = c.val],
                            hit |-> r.hit \cup {<<lx, ly>>},
                            oob |-> r.oob \/ c.oob])

\* growFootprint(cr, 1) and footprintAndMask (afw), as sets of image pixels
growFootprint(ps) ==
    {q \in Pix : \E p \in ps : (q[1] - p[1]) * (q[1] - p[1]) + (q[2] - p[2]) * (q[2] - p[2]) <= 1}

footprintAndMask(ps, msk, bit) == {p \in ps \cap Pix : bit \in msk[p]}

setMaskFromPixels(msk, ps, bit) == [p \in Pix |-> IF p \in ps THEN msk[p] \cup {bit} ELSE msk[p]]

\* removeCR: the CRs in reverse order; r = [img, mask, hit, oob]
RECURSIVE removeCR(_, _, _, _, _)
removeCR(crs, n, debias, grow, r) ==
    IF n < 1 THEN r
    ELSE LET cr == crs[n]
             saturPixels == footprintAndMask(growFootprint(LocalPixels(cr)), r.mask, saturBit)
         IN  IF grow /\ cr.npix < 100 /\ Cardinality(saturPixels) > 0
             THEN removeCR(crs, n - 1, debias, grow,
                           [r EXCEPT !.mask = setMaskFromPixels(r.mask, saturPixels, saturBit)])
             ELSE LET a == applyRemoveCR(cr, 1, cr.spans[1].x0, r.mask, debias,
                                         [img |-> r.img, hit |-> r.hit, oob |-> r.oob])
                  IN  removeCR(crs, n - 1, debias, grow,
                               [img |-> a.img, mask |-> r.mask, hit |-> a.hit, oob |-> a.oob])

debias_values == TRUE

\* removeCR(mimage, CRs, bkgd, crBit, saturBit, badMask, debias_values, grow = false)
RemoveInitial ==
    /\ pc = "remove"
    /\ \E r \in {removeCR(CRs, Len(CRs), debias_values, FALSE,
                           [img |-> img, mask |-> mask, hit |-> {}, oob |-> oob])} :
           /\ img' = r.img
           /\ mask' = r.mask
           /\ oob' = r.oob
           /\ writer' = [p \in Pix |-> IF p \in r.hit THEN "interp" ELSE writer[p]]
    /\ pc' = "grow"
    /\ UNCHANGED <<variance, img0, mask0, keep, policy, origin,
                   crpixels, ctr, aliases, spans, CRs, iter, nextra, single>>
    /\ UNCHANGED othervars


\* ---- growth -------------------------------------------------------------
\* Footprint::normalize (afw): sorted, non-overlapping spans over the same pixels
RECURSIVE spansInOrder(_)
spansInOrder(ss) ==
    IF ss = {} THEN <<>>
    ELSE LET first == CHOOSE a \in ss :
                         \A b \in ss : a.y < b.y \/ (a.y = b.y /\ a.x0 <= b.x0)
         IN  <<first>> \o spansInOrder(ss \ {first})

normalize(fp) ==
    LET ps == FootprintPixels(fp)
        xs == {p[1] : p \in ps}
        runs == {Span(p[2], p[1], x1) : p \in {q \in ps : <<q[1] - 1, q[2]>> \notin ps},
                                        x1 \in xs}
        maximal == {r \in runs : /\ r.x1 >= r.x0
                                 /\ \A x \in r.x0 .. r.x1 : <<x, r.y>> \in ps
                                 /\ <<r.x1 + 1, r.y>> \notin ps}
    IN  [spans |-> spansInOrder(maximal), npix |-> Cardinality(ps)]

\* checkSpanForCRs: the pixels x0 - 1 .. x1 + 1 of row y;
\* st = [img, crpixels, ctr, extras, hit]
RECURSIVE checkSpanForCRs(_, _, _, _, _, _)
checkSpanForCRs(st, y, x, x1, min_sigma, cond3_fac) ==
    IF x > x1 + 1 THEN st
    ELSE LET t == is_cr_pixel(st.img, x, y, min_sigma, thres_h, thres_v, thres_d,
                              bkgd, policy.e_per_dn, cond3_fac)
         IN  IF ~t.cr THEN checkSpanForCRs(st, y, x + 1, x1, min_sigma, cond3_fac)
             ELSE checkSpanForCRs(
                      [img |-> [st.img EXCEPT ![<<x, y>>] = t.corr],
                       crpixels |-> IF keep
                                    THEN Append(st.crpixels,
                                                CRPixel(x, y, st.img[<<x, y>>], -1, st.ctr + 1))
                                    ELSE st.crpixels,
                       ctr |-> IF keep THEN st.ctr + 1 ELSE st.ctr,
                       extras |-> addSpan(st.extras, y + origin[2], x + origin[1], x + origin[1]),
                       hit |-> st.hit \cup {<<x, y>>}],
                      y, x + 1, x1, min_sigma, cond3_fac)

\* x = (x < 2) ? 2 : (x > ncol - 3) ? ncol - 3 : x
clampColumn(x, ncol) == IF x < 2 THEN 2 ELSE IF x > ncol - 3 THEN ncol - 3 ELSE x

\* if (y < 2 || y >= nrow - 2) continue
rowSkipped(y, nrow) == y < 2 \/ y >= nrow - 2

\* the loop over the spans of one CR
RECURSIVE growSpans(_, _, _)
growSpans(cr, n, st) ==
    IF n > Len(cr.spans) THEN st
    ELSE LET y == cr.spans[n].y - origin[2]
             sx0 == cr.spans[n].x0 - origin[1]
             sx1 == cr.spans[n].x1 - origin[1]
             x0 == clampColumn(sx0, NCol)
             x1 == clampColumn(sx1, NCol)
             ms == grow_min_sigma
         IN  IF rowSkipped(y, NRow) THEN growSpans(cr, n + 1, st)
             ELSE growSpans(cr, n + 1,
                      checkSpanForCRs(
                          checkSpanForCRs(
                              checkSpanForCRs(st, y - 1, x0 - 1, x1, ms, grow_cond3_fac),
                              y, x0 - 1, x1, ms, grow_cond3_fac),
                          y + 1, x0 - 1, x1, ms, grow_cond3_fac))

RECURSIVE addSpans(_, _, _)
addSpans(fp, ss, n) ==
    IF n > Len(ss) THEN fp
    ELSE addSpans(addSpan(fp, ss[n].y, ss[n].x0, ss[n].x1), ss, n + 1)

\* one pass over all CRs; g = [img, crpixels, ctr, CRs, nextra, hit]
RECURSIVE growCRs(_, _)
growCRs(n, g) ==
    IF n > Len(g.CRs) THEN g
    ELSE LET cr == g.CRs[n]
             om == footprintAndMask(LocalPixels(cr), mask, interpBit)
         IN  IF Cardinality(om) = cr.npix THEN growCRs(n + 1, g)
             ELSE LET st == growSpans(cr, 1, [img |-> g.img, crpixels |-> g.crpixels,
                                              ctr |-> g.ctr, extras |-> EmptyFootprint,
                                              hit |-> g.hit])
                  IN  growCRs(n + 1,
                              [img |-> st.img, crpixels |-> st.crpixels, ctr |-> st.ctr,
                               CRs |-> IF Len(st.extras.spans) > 0
                                       THEN [g.CRs EXCEPT ![n] =
                                                normalize(addSpans(cr, st.extras.spans, 1))]
                                       ELSE g.CRs,
                               nextra |-> IF Len(st.extras.spans) > 0
                                          THEN g.nextra + st.extras.npix ELSE g.nextra,
                               hit |-> st.hit])

\* one turn of for (int i = 0; i != niteration; ++i)
GrowPass ==
    /\ pc = "grow"
    /\ iter # policy.niteration
    /\ \E g \in {growCRs(1, [img |-> img, crpixels |-> crpixels, ctr |-> ctr, CRs |-> CRs,
                              nextra |-> nextra, hit |-> {}])} :
           /\ img' = g.img
           /\ crpixels' = g.crpixels
           /\ ctr' = g.ctr
           /\ CRs' = g.CRs
           /\ nextra' = g.nextra
           /\ writer' = [p \in Pix |-> IF p \in g.hit THEN "estimate" ELSE writer[p]]
           /\ IF g.nextra = 0 THEN pc' = "mark" /\ iter' = iter
                              ELSE pc' = "grow" /\ iter' = iter + 1
    /\ UNCHANGED <<variance, mask, img0, mask0, keep, policy, origin,
                   aliases, spans, oob, single>>
    /\ UNCHANGED othervars

GrowEnd ==
    /\ pc = "grow"
    /\ iter = policy.niteration
    /\ pc' = "mark"
    /\ UNCHANGED <<img, variance, mask, img0, mask0, keep, policy, origin,
                   crpixels, ctr, aliases, spans, CRs, iter, nextra, writer, oob, single>>
    /\ UNCHANGED othervars


\* ---- mask writes and the last phase -------------------------------------
AllLocalPixels(crs) == UNION {LocalPixels(crs[n]) : n \in 1 .. Len(crs)}

\* setMaskFromFootprintList (afw): the bit is set on every pixel of every Footprint
setMaskFromFootprintList(msk, crs, bit) == setMaskFromPixels(msk, AllLocalPixels(crs) \cap Pix, bit)

\* variant that marks every pixel the sweep detected, dropped candidates included
MarkCRsAllDetected ==
    /\ pc = "mark"
    /\ mask' = setMaskFromPixels(mask, PixelsOf(crpixels) \cap Pix, crBit)
    /\ pc' = "final"
    /\ UNCHANGED <<img, variance, img0, mask0, keep, policy, origin,
                   crpixels, ctr, aliases, spans, CRs, iter, nextra, writer, oob, single>>
    /\ UNCHANGED othervars

\* line 543: the CR bit is set on the Footprints that are left
MarkCRs ==
    /\ pc = "mark"
    /\ mask' = setMaskFromFootprintList(mask, CRs, crBit)
    /\ pc' = "final"
    /\ UNCHANGED <<img, variance, img0, mask0, keep, policy, origin,
                   crpixels, ctr, aliases, spans, CRs, iter, nextra, writer, oob, single>>
    /\ UNCHANGED othervars

\* operator< of CRPixel orders by the running index
RECURSIVE insertPixel(_, _)
insertPixel(sorted, cp) ==
    IF sorted = <<>> THEN <<cp>>
    ELSE IF cp.idx < sorted[Len(sorted)].idx
         THEN Append(insertPixel(SubSeq(sorted, 1, Len(sorted) - 1), cp), sorted[Len(sorted)])
         ELSE Append(sorted, cp)

RECURSIVE sortPixels(_)
sortPixels(cps) ==
    IF cps = <<>> THEN <<>>
    ELSE insertPixel(sortPixels(SubSeq(cps, 1, Len(cps) - 1)), cps[Len(cps)])

\* the loop from crpixels.rbegin() + 1 to crpixels.rend(); r = [img, hit, oob]
RECURSIVE restore(_, _, _)
restore(cps, k, r) ==
    IF k < 1 THEN r
    ELSE IF InImage(cps[k].col, cps[k].row)
    THEN restore(cps, k - 1, [img |-> [r.img EXCEPT ![<<cps[k].col, cps[k].row>>] = cps[k].val],
                              hit |-> r.hit \cup {<<cps[k].col, cps[k].row>>}, oob |-> r.oob])
    ELSE restore(cps, k - 1, [r EXCEPT !.oob = TRUE])

\* if (keep): with an empty list both crpixels.end() - 1 and crpixels.rbegin() + 1
\* lie outside the list, and the loop reads CRPixels that are not there
RestoreKept ==
    /\ pc = "final"
    /\ keep
    /\ IF Len(crpixels) = 0
       THEN /\ pc' = "crashed"
            /\ oob' = TRUE
            /\ UNCHANGED <<img, crpixels, writer>>
       ELSE \E cps \in {sortPixels(SubSeq(crpixels, 1, Len(crpixels) - 1))
                        \o <<crpixels[Len(crpixels)]>>} :
            \E r \in {restore(cps, Len(cps) - 1, [img |-> img, hit |-> {}, oob |-> oob])} :
                /\ crpixels' = cps
                /\ img' = r.img
                /\ oob' = r.oob
                /\ writer' = [p \in Pix |-> IF p \in r.hit THEN "restore" ELSE writer[p]]
                /\ pc' \in IF r.oob THEN {"done", "crashed"} ELSE {"done"}
    /\ UNCHANGED <<variance, mask, img0, mask0, keep, policy, origin,
                   ctr, aliases, spans, CRs, iter, nextra, single>>
    /\ UNCHANGED othervars

\* else: removeCR with grow = true, then setMaskFromFootprintList(.., crBit)
RemoveFinal ==
    /\ pc = "final"
    /\ ~keep
    /\ \E r \in {removeCR(CRs, Len(CRs), debias_values, TRUE,
                          [img |-> img, mask |-> mask, hit |-> {}, oob |-> oob])} :
           /\ img' = r.img
           /\ mask' = setMaskFromFootprintList(r.mask, CRs, crBit)
           /\ oob' = r.oob
           /\ writer' = [p \in Pix |-> IF p \in r.hit THEN "interp" ELSE writer[p]]
    /\ pc' = "done"
    /\ UNCHANGED <<variance, img0, mask0, keep, policy, origin,
                   crpixels, ctr, aliases, spans, CRs, iter, nextra, single>>
    /\ UNCHANGED othervars


\* ---- properties ---------------------------------------------------------
Detected == PixelsOf(crpixels)

Returned == AllLocalPixels(CRs)

Adj8(p, q) == /\ p # q
              /\ p[1] - q[1] \in {-1, 0, 1}
              /\ p[2] - q[2] \in {-1, 0, 1}

RECURSIVE Reach(_, _)
Reach(S, D) ==
    LET n == S \cup {q \in D : \E p \in S : Adj8(p, q)}
    IN  IF n = S THEN S ELSE Reach(n, D)

SameFootprint(p, q) == \E n \in 1 .. Len(CRs) : p \in LocalPixels(CRs[n]) /\ q \in LocalPixels(CRs[n])

\* C1: with keep = true the image at return equals the image before the call
ClaimC1 == (pc = "done" /\ keep) => img = img0

\* C2: when the sweep detects no pixel, the call returns an empty list, leaves
\* image and mask as they were and touches no memory outside the pixel list
\* and the image
ClaimC2 ==
    (pc \notin {"start", "sweep"} /\ policy.e_per_dn > 0 /\ Len(crpixels) = 0) =>
        /\ pc # "crashed"
        /\ ~oob
        /\ img = img0
        /\ mask = mask0
        /\ CRs = <<>>

\* C3: after labelling, two detected pixels lie in the same candidate
\* Footprint exactly when a chain of 8-adjacent detected pixels links them,
\* and every detected pixel lies in a candidate
ClaimC3 ==
    pc = "reinstate" =>
        /\ \A p \in Detected : \A q \in Detected :
              SameFootprint(p, q) <=> q \in Reach({p}, Detected)
        /\ Returned = Detected

\* three detected pixels on three rows, linked only through their corners
\* (one step down-right, one step down-left), merged into one Footprint
WitnessC3 ==
    /\ pc = "reinstate"
    /\ Len(CRs) = 1
    /\ \E p \in Detected : \E q \in Detected : \E r \in Detected :
          /\ q[1] - p[1] = 1 /\ q[2] - p[2] = 1
          /\ r[1] - q[1] = -1 /\ r[2] - q[2] = 1
          /\ Detected = {p, q, r}
          /\ SameFootprint(p, r)

SpanWidths(fp) ==
    LET RECURSIVE total(_)
        total(n) == IF n = 0 THEN 0
                    ELSE (fp.spans[n].x1 - fp.spans[n].x0 + 1) + total(n - 1)
    IN  total(Len(fp.spans))

\* C4: at return the Footprints are pairwise disjoint, no Footprint covers a
\* pixel twice, and each pixel count is the sum of the span widths
ClaimC4 ==
    pc = "done" =>
        /\ \A m \in 1 .. Len(CRs) : \A n \in 1 .. Len(CRs) :
              m # n => LocalPixels(CRs[m]) \cap LocalPixels(CRs[n]) = {}
        /\ \A n \in 1 .. Len(CRs) :
              /\ Cardinality(FootprintPixels(CRs[n])) = SpanWidths(CRs[n])
              /\ CRs[n].npix = SpanWidths(CRs[n])

\* C5: with keep = false every pixel left with an interpolated value carries
\* the INTRP bit at return
ClaimC5 ==
    (pc = "done" /\ ~keep) =>
        \A p \in Pix : writer[p] = "interp" => interpBit \in mask[p]

\* C6: at return the CR bit is set on every pixel of a returned Footprint, and
\* the call has set it on no other pixel
ClaimC6 ==
    pc = "done" =>
        \A p \in Pix :
            /\ p \in Returned => crBit \in mask[p]
            /\ (crBit \in mask[p] /\ crBit \notin mask0[p]) => p \in Returned

\* a returned CR carrying the bit next to a candidate that was dropped
WitnessC6 ==
    /\ pc = "done"
    /\ \E p \in Returned : crBit \in mask[p]
    /\ \E p \in Detected : p \notin Returned /\ crBit \notin mask[p]

\* C7: at return every pixel without the CR bit holds its value from before
\* the call
ClaimC7 ==
    pc = "done" =>
        \A p \in Pix : crBit \notin mask[p] => img[p] = img0[p]

\* C8: keep = false and every candidate dropped by condition #1: no Footprint
\* is returned and the image equals the image before the call
ClaimC8 ==
    (pc = "done" /\ ~keep /\ Len(crpixels) > 0 /\ CRs = <<>>) => img = img0

\* C9: keep = false: a returned CR of fewer than 100 pixels whose Footprint
\* grown by one pixel meets a SAT pixel keeps its pixel values uninterpolated
\* and ends with SAT set on its own pixels
ClaimC9 ==
    (pc = "done" /\ ~keep) =>
        \A n \in 1 .. Len(CRs) :
            (/\ CRs[n].npix < 100
             /\ footprintAndMask(growFootprint(LocalPixels(CRs[n])), mask0, saturBit) # {}) =>
                \A p \in LocalPixels(CRs[n]) :
                    writer[p] # "interp" /\ saturBit \in mask[p]

\* C10: with e_per_dn <= 0 the call fails before the sweep: nothing has been
\* detected, written or marked
ClaimC10 ==
    policy.e_per_dn <= 0 =>
        /\ pc \in {"start", "aborted"}
        /\ img = img0
        /\ mask = mask0
        /\ crpixels = <<>>
        /\ CRs = <<>>
        /\ \A p \in Pix : writer[p] = "none"

\* the call has stopped at the assertion
WitnessC10 == pc = "aborted" /\ policy.e_per_dn <= 0

\* C18: a pixel with BAD, INTRP or SAT in its mask when it is tested is never
\* recorded as a cosmic-ray pixel, never overwritten by a detection estimate
\* and never part of a returned Footprint, in the sweep and in the growth passes
ClaimC18 ==
    \A p \in Pix : mask0[p] \cap badMask # {} =>
       /\ p \notin Detected
       /\ writer[p] # "estimate"
       /\ pc = "done" => p \notin Returned

\* the charge of a candidate, sum of (image - bkgd) times e_per_dn, is not
\* less than min_e
BrightEnough(fp) == SumOver(img, LocalPixels(fp)) * policy.e_per_dn >= policy.min_e * Scale

\* C19: Condition #1 keeps exactly the candidates whose sum of (image - bkgd)
\* times e_per_dn is not less than min_e, in their order, whichever of them are
\* dropped
ClaimC19 ==
    [][pc = "cond1" => (pc' = "remove" /\ CRs' = SelectSeq(CRs, BrightEnough))]_allvars

\* C20: when Condition #1 sums the flux every pixel found by the sweep holds
\* the value it had before the call, and the reinstatement has written to no
\* other pixel, for any origin and any pixel values
ClaimC20 ==
    pc = "cond1" => (img = img0 /\ ~oob /\ \A p \in Pix : writer[p] = "reinstate" <=> p \in Detected)

\* C22: the sweep applies the pixel test with exactly the configured
\* min_sigma, and a growth pass with exactly min_sigma / 2 and cond3_fac = 0,
\* whatever min_sigma is
ClaimC22 ==
    /\ pc \notin {"start", "aborted"} => FromInt(sweep_min_sigma) = policy.min_sigma
    /\ (pc = "grow" /\ iter > 0) =>
          (FromInt(grow_min_sigma) = policy.min_sigma \div 2 /\ grow_cond3_fac = 0)

\* position of a pixel in row-major order
RowMajor(p) == p[2] * NCol + p[1]

\* the image a pixel p is tested on when every pixel detected before it in
\* row-major order already holds its estimate
SeenBy(p) ==
    [q \in Pix |-> IF q \in Detected /\ RowMajor(q) < RowMajor(p) THEN img[q] ELSE img0[q]]

\* the pixel test of the sweep at p on image im
SweepTest(im, p) ==
    is_cr_pixel(im, p[1], p[2], sweep_min_sigma, thres_h, thres_v, thres_d,
                bkgd, policy.e_per_dn, policy.cond3_fac)

\* C23: the sweep tests the interior pixels in row-major order and leaves the
\* border alone; a detected pixel gets its estimate at once, so every pixel
\* tested later sees the estimate and not the original value
ClaimC23 ==
    pc = "label" =>
       /\ \A p \in Pix \ Interior : img[p] = img0[p] /\ p \notin Detected
       /\ \A k \in 1 .. Len(crpixels) : \A l \in 1 .. Len(crpixels) :
             k < l => RowMajor(<<crpixels[k].col, crpixels[k].row>>)
                        < RowMajor(<<crpixels[l].col, crpixels[l].row>>)
       /\ \A p \in Interior :
             /\ p \in Detected <=> (SweepTest(SeenBy(p), p).cr /\ mask[p] \cap badMask = {})
             /\ p \in Detected => img[p] = SweepTest(SeenBy(p), p).corr
             /\ p \notin Detected => img[p] = img0[p]

\* a pixel was detected after a neighbour of it, and tested on the original
\* image it would have got another estimate
WitnessC23 ==
    /\ pc = "label"
    /\ \E p \in Detected : \E q \in Detected :
          /\ Adj8(p, q)
          /\ RowMajor(p) < RowMajor(q)
          /\ SweepTest(img0, q).corr # img[q]

\* the pixel RemoveCR is applied to first: the first pixel of the last CR
FirstRepaired ==
    LET cr == CRs[Len(CRs)]
    IN  <<cr.spans[1].x0 - origin[1], cr.spans[1].y - origin[2]>>

\* the four support pixels of an estimate lie inside the image and carry
\* none of the bits BAD, CR, SAT, INTRP
CleanSupport(msk, p, e) ==
    \A k \in 1 .. 4 :
        /\ InImage(p[1] + e.off[k][1], p[2] + e.off[k][2])
        /\ msk[<<p[1] + e.off[k][1], p[2] + e.off[k][2]>>] \cap (badMask \cup {crBit}) = {}

\* the 4-point estimate of a direction and its validity: clean support and
\* a value above bkgd - 2*sqrt(variance)
Support4(im, p, e) ==
    Mul(e.c1, im[<<p[1] + e.off[2][1], p[2] + e.off[2][2]>>] + im[<<p[1] + e.off[3][1], p[2] + e.off[3][2]>>])
    + Mul(e.c2, im[<<p[1] + e.off[1][1], p[2] + e.off[1][2]>>] + im[<<p[1] + e.off[4][1], p[2] + e.off[4][2]>>])

ValidEstimates(im, msk, p) ==
    {n \in 1 .. Len(Estimates) :
        /\ CleanSupport(msk, p, Estimates[n])
        /\ Support4(im, p, Estimates[n]) > bkgd - 2 * Sqrt(variance[p])}

\* C24: RemoveCR skips a directional estimate exactly when one of its four
\* support pixels carries a bit of BAD|CR|SAT|INTRP; an estimate whose
\* support is clean and inside the image is computed and considered
ClaimC24 ==
    (pc = "remove" /\ Len(CRs) > 0) =>
        LET p == FirstRepaired
            c == RemoveCR(img, mask, p[1] + origin[1], p[2] + origin[2], p[1], p[2], debias_values)
        IN  \A n \in 1 .. Len(Estimates) :
                n \in c.used <=> CleanSupport(mask, p, Estimates[n])

\* C25: RemoveCR subtracts the bias correction exactly when at least two
\* directional estimates were valid, whatever their order and whichever is
\* the smallest; with fewer than two valid estimates nothing is subtracted
ClaimC25 ==
    (pc = "remove" /\ Len(CRs) > 0) =>
        LET p == FirstRepaired
            c == RemoveCR(img, mask, p[1] + origin[1], p[2] + origin[2], p[1], p[2], debias_values)
        IN  c.debiased <=> Cardinality(ValidEstimates(img, mask, p)) >= 2

\* the id reached from id by following n aliases
RECURSIVE Follow(_, _, _)
Follow(al, id, n) == IF n = 0 THEN id ELSE Follow(al, al[id + 1], n - 1)

\* an id that is its own alias
IsRoot(al, id) == al[id + 1] = id

\* C30: in the alias table left by the labelling every chain of aliases ends
\* in a root (so resolve_alias terminates for every id), the id resolve_alias
\* returns is a root, resolving twice gives what resolving once gives, and
\* the id of every span is a root after the resolution step
ClaimC30 ==
    pc = "reinstate" =>
        /\ \A id \in 0 .. Len(aliases) - 1 :
              /\ aliases[id + 1] \in 0 .. Len(aliases) - 1
              /\ IsRoot(aliases, Follow(aliases, id, Len(aliases)))
              /\ IsRoot(aliases, resolve_alias(aliases, id))
              /\ resolve_alias(aliases, resolve_alias(aliases, id)) = resolve_alias(aliases, id)
        /\ \A n \in 1 .. Len(spans) : IsRoot(aliases, spans[n].id)

\* a table with a chain of two aliases: three spans joined one after another
WitnessC30 ==
    /\ pc = "reinstate"
    /\ \E id \in 1 .. Len(aliases) - 1 :
          /\ ~IsRoot(aliases, id)
          /\ ~IsRoot(aliases, aliases[id + 1])
          /\ \E n \in 1 .. Len(spans) : spans[n].id = resolve_alias(aliases, id)

Next ==
    \/ CheckPolicy
    \/ InitialSweep
    \/ LabelComponents
    \/ ReinstatePixels
    \/ ApplyCondition1
    \/ RemoveInitial
    \/ GrowPass
    \/ GrowEnd
    \/ MarkCRs
    \/ RestoreKept
    \/ RemoveFinal

Spec == Init /\ [][Next]_allvars

\* ======================================================================
\* PSF fitting: SpatialModelPsf.cc
\* ======================================================================
\* Images here have one row; a stamp or kernel image is a function on
\* 0 .. StampW - 1, the parent image a function on 0 .. ParentW - 1.

\* calls of the fitting code in one run
MaxVisits == 3

\* width of a candidate's stamp and of the kernel's images
StampW == 2

\* width of the candidates' parent image
ParentW == 4

\* number of basis kernels and of spatial parameters per basis kernel
nComponents == 2
nSpatialParams == 2

\* floor to the per-candidate variance in the linear fit
tau2 == 0

StampCols == 0 .. StampW - 1

ParentCols == 0 .. ParentW - 1

\* the MaskedImage the candidates were cut from; its first pixel has a variance
\* of zero
ParentImage ==
    [img |-> [x \in ParentCols |-> (x + 1) * Scale],
     var |-> [x \in ParentCols |-> IF x = 0 THEN 0 ELSE Scale],
     x0 |-> 0]

\* candidates: one off the left edge, one on the zero-variance pixel with the
\* amplitude it is constructed with, two inside
CandInputs ==
    {[xc |-> 0, amp |-> 2 * Scale, chi2 |-> 0, var |-> Scale, flux |-> Scale],
     [xc |-> 1, amp |-> 0, chi2 |-> 0, var |-> Scale, flux |-> Scale],
     [xc |-> 2, amp |-> 2 * Scale, chi2 |-> 0, var |-> 2 * Scale, flux |-> 3 * Scale],
     [xc |-> ParentW, amp |-> Scale, chi2 |-> 0, var |-> Scale, flux |-> Scale]}

\* images a normalised kernel may compute at a position: all the light in the
\* first pixel, or spread evenly
ModelImages ==
    {[x \in StampCols |-> IF x = 0 THEN Scale ELSE 0],
     [x \in StampCols |-> Scale \div StampW]}

\* the images subtractPsf may be handed: flat data, with or without variance
ImageInputs ==
    {[img |-> [x \in ParentCols |-> 3 * Scale],
      var |-> [x \in ParentCols |-> IF x \in z THEN 0 ELSE Scale],
      mask |-> [x \in ParentCols |-> {}],
      x0 |-> 0] : z \in {{}, ParentCols}}

\* PsfCandidate::getImage: the stamp of width StampW around the centre, cut
\* from the parent image; the cut throws when the box leaves the parent
getImage(c) ==
    LET llc  == c.xc - StampW \div 2
        bbox == llc - ParentImage.x0
    IN  IF bbox < 0 \/ bbox + StampW > ParentW
        THEN [thrown |-> "LengthError", img |-> <<>>, var |-> <<>>]
        ELSE [thrown |-> "none",
              img |-> [x \in StampCols |-> ParentImage.img[bbox + x]],
              var |-> [x \in StampCols |-> ParentImage.var[bbox + x]]]

\* afwImage::innerProduct with a border of 0
RECURSIVE innerProductFrom(_, _, _)
innerProductFrom(a, b, x) ==
    IF x = StampW THEN 0 ELSE Mul(a[x], b[x]) + innerProductFrom(a, b, x + 1)

innerProduct(a, b) == innerProductFrom(a, b, 0)

\* ---- fitKernel ----------------------------------------------------------
\* the sums of model*model/variance, model*data/variance, data*data/variance
\* over the pixels from x on, added to acc
RECURSIVE fitSums(_, _, _, _)
fitSums(mImage, data, x, acc) ==
    IF x = StampW THEN acc
    ELSE LET m   == mImage[x]
             d   == data.img[x]
             var == data.var[x]
         IN  IF var # 0
             THEN LET iVar == (Scale * Scale) \div var
                  IN  fitSums(mImage, data, x + 1,
                              [sumMM |-> acc.sumMM + Mul(Mul(m, m), iVar),
                               sumMD |-> acc.sumMD + Mul(Mul(m, d), iVar),
                               sumDD |-> acc.sumDD + Mul(Mul(d, d), iVar)])
             ELSE fitSums(mImage, data, x + 1, acc)

\* variant that never throws: a model without weight is fitted with amplitude 0
fitKernelNoThrow(mImage, data) ==
    LET s == fitSums(mImage, data, 0, [sumMM |-> 0, sumMD |-> 0, sumDD |-> 0])
    IN  IF s.sumMM = 0
        THEN [thrown |-> "none", chi2 |-> s.sumDD, amp |-> 0]
        ELSE LET amp == (s.sumMD * Scale) \div s.sumMM
             IN  [thrown |-> "none",
                  chi2 |-> s.sumDD - 2 * Mul(amp, s.sumMD) + Mul(Mul(amp, amp), s.sumMM),
                  amp |-> amp]

fitKernel(mImage, data) ==
    LET s == fitSums(mImage, data, 0, [sumMM |-> 0, sumMD |-> 0, sumDD |-> 0])
    IN  IF s.sumMM = 0
        THEN [thrown |-> "RangeError", chi2 |-> 0, amp |-> 0]
        ELSE LET amp == (s.sumMD * Scale) \div s.sumMM
             IN  [thrown |-> "none",
                  chi2 |-> s.sumDD - 2 * Mul(amp, s.sumMD) + Mul(Mul(amp, amp), s.sumMM),
                  amp |-> amp]

\* ---- the visitors -------------------------------------------------------
FitCanRun == visits < MaxVisits

Called(op, k, m) == [op |-> op, k |-> k, m |-> m, built |-> FALSE, x |-> <<>>, chisq |-> 0]

\* SetPcaImageVisitor::processCandidate; the centres are whole pixels, so the
\* shift by the fractional part is by (0, 0)
VisitPca(k) ==
    /\ FitCanRun
    /\ LET g == getImage(cands[k])
       IN  pca' = IF g.thrown = "LengthError" THEN pca
                  ELSE Append(pca, [im |-> g.img, flux |-> cands[k].flux])
    /\ err' = "none"
    /\ last' = Called("pca", k, <<>>)
    /\ visits' = visits + 1
    /\ UNCHANGED <<cands, nCount, chi2, matA, vecB, idxWarn, image>>
    /\ UNCHANGED <<vars, pixvars, regvars, extvars>>

\* variant that counts before it asks for the stamp
VisitCountFirst(k) ==
    /\ FitCanRun
    /\ nCount' = nCount + 1
    /\ err' = "none"
    /\ last' = Called("count", k, <<>>)
    /\ visits' = visits + 1
    /\ UNCHANGED <<cands, pca, chi2, matA, vecB, idxWarn, image>>
    /\ UNCHANGED <<vars, pixvars, regvars, extvars>>

\* countVisitor::processCandidate
VisitCount(k) ==
    /\ FitCanRun
    /\ nCount' = IF getImage(cands[k]).thrown = "LengthError" THEN nCount ELSE nCount + 1
    /\ err' = "none"
    /\ last' = Called("count", k, <<>>)
    /\ visits' = visits + 1
    /\ UNCHANGED <<cands, pca, chi2, matA, vecB, idxWarn, image>>
    /\ UNCHANGED <<vars, pixvars, regvars, extvars>>

\* evalChi2Visitor::processCandidate; m is the image the kernel computes at the
\* candidate's position
VisitChi2(k, m) ==
    /\ FitCanRun
    /\ LET g == getImage(cands[k])
           r == fitKernel(m, g)
       IN  IF g.thrown = "LengthError"
           THEN /\ err' = "none"
                /\ UNCHANGED <<cands, chi2>>
           ELSE IF r.thrown = "RangeError"
           THEN /\ err' = "RangeError"
                /\ UNCHANGED <<cands, chi2>>
           ELSE /\ err' = "none"
                /\ cands' = [cands EXCEPT ![k].chi2 = r.chi2, ![k].amp = r.amp]
                /\ chi2' = chi2 + r.chi2
    /\ last' = Called("chi2", k, m)
    /\ visits' = visits + 1
    /\ UNCHANGED <<pca, nCount, matA, vecB, idxWarn, image>>
    /\ UNCHANGED <<vars, pixvars, regvars, extvars>>

\* ---- FillABVisitor ------------------------------------------------------
\* the kernel's components as images: the first spreads the light evenly,
\* component ic > 0 has it all in one pixel
basisImgs(ic) ==
    [x \in StampCols |-> IF ic = 0 THEN Scale \div StampW
                         ELSE IF x = (ic - 1) % StampW THEN Scale ELSE 0]

\* the inner products of the components, filled by the constructor for i <= j
\* and mirrored
basisDotBasis(i, j) ==
    IF i <= j THEN innerProduct(basisImgs(i), basisImgs(j))
    ELSE innerProduct(basisImgs(j), basisImgs(i))

RECURSIVE Pow(_, _)
Pow(a, n) == IF n = 0 THEN 1 ELSE a * Pow(a, n - 1)

\* getDFuncDParameters of a polynomial in the column: the powers of the centre
dFuncDParameters(c) == [is \in 0 .. nSpatialParams - 1 |-> Pow(c.xc, is)]

ABsize == nComponents * nSpatialParams

\* _A.setZero() and _b.setZero(); an entry of b is finite or not
ZeroA == [ij \in (0 .. ABsize - 1) \X (0 .. ABsize - 1) |-> 0]

ZeroB == [i \in 0 .. ABsize - 1 |-> [fin |-> TRUE, v |-> 0]]

\* b += num/amp in doubles: dividing by an amplitude of zero leaves an entry
\* that is not finite, and it stays so
addToB(bi, num, amp) ==
    IF ~bi.fin \/ amp = 0 THEN [fin |-> FALSE, v |-> 0]
    ELSE [fin |-> TRUE, v |-> bi.v + (num * Scale) \div amp]

\* the printed check of the loop: an index does not name its component and
\* its coefficient
indexMismatch(i, ic, is, j, jc, js) ==
    \/ ic # i \div nSpatialParams
    \/ is # i % nSpatialParams
    \/ jc # j \div nSpatialParams
    \/ js # j % nSpatialParams

\* variant of the innermost loop that leaves _A(j, i) alone
RECURSIVE fillJsUpperOnly(_, _, _, _, _, _, _, _)
fillJsUpperOnly(st, c, i, ic, is, j, jc, js) ==
    IF js = nSpatialParams THEN [A |-> st.A, warn |-> st.warn, j |-> j]
    ELSE LET v == st.A[<<i, j>>]
                  + Mul(c.ivar * c.params[ic][is] * c.params[jc][js], basisDotBasis(ic, jc))
         IN  fillJsUpperOnly([A |-> [st.A EXCEPT ![<<i, j>>] = v],
                              warn |-> st.warn \/ indexMismatch(i, ic, is, j, jc, js)],
                             c, i, ic, is, j + 1, jc, js + 1)

\* for (js = ...; js != _nSpatialParams; ++js, ++j): _A(i, j) += ...;
\* _A(j, i) = _A(i, j)
RECURSIVE fillJs(_, _, _, _, _, _, _, _)
fillJs(st, c, i, ic, is, j, jc, js) ==
    IF js = nSpatialParams THEN [A |-> st.A, warn |-> st.warn, j |-> j]
    ELSE LET v == st.A[<<i, j>>]
                  + Mul(c.ivar * c.params[ic][is] * c.params[jc][js], basisDotBasis(ic, jc))
         IN  fillJs([A |-> [st.A EXCEPT ![<<i, j>>] = v, ![<<j, i>>] = v],
                     warn |-> st.warn \/ indexMismatch(i, ic, is, j, jc, js)],
                    c, i, ic, is, j + 1, jc, js + 1)

\* for (j = i, jc = ic; jc != _nComponents; ++jc)
RECURSIVE fillJc(_, _, _, _, _, _, _)
fillJc(st, c, i, ic, is, j, jc) ==
    IF jc = nComponents THEN st
    ELSE LET r == fillJs(st, c, i, ic, is, j, jc, IF i = j THEN is ELSE 0)
         IN  fillJc([A |-> r.A, warn |-> r.warn], c, i, ic, is, r.j, jc + 1)

\* for (is = 0; is != _nSpatialParams; ++is, ++i); st = [A, b, warn]
RECURSIVE fillIs(_, _, _, _, _)
fillIs(st, c, i, ic, is) ==
    IF is = nSpatialParams THEN [A |-> st.A, b |-> st.b, warn |-> st.warn, i |-> i]
    ELSE LET b1 == [st.b EXCEPT ![i] = addToB(st.b[i], Mul(c.ivar * c.params[ic][is], c.basisDotData[ic]), c.amp)]
             r  == fillJc([A |-> st.A, warn |-> st.warn], c, i, ic, is, i, ic)
         IN  fillIs([A |-> r.A, b |-> b1, warn |-> r.warn], c, i + 1, ic, is + 1)

\* for (i = 0, ic = 0; ic != _nComponents; ++ic)
RECURSIVE fillIc(_, _, _, _)
fillIc(st, c, i, ic) ==
    IF ic = nComponents THEN st
    ELSE LET r == fillIs(st, c, i, ic, 0)
         IN  fillIc([A |-> r.A, b |-> r.b, warn |-> r.warn], c, r.i, ic + 1)

\* FillABVisitor::processCandidate
VisitFillAB(k) ==
    /\ FitCanRun
    /\ LET g == getImage(cands[k])
           c == [amp |-> cands[k].amp,
                 ivar |-> (Scale * Scale) \div (cands[k].var + tau2),
                 params |-> [ic \in 0 .. nComponents - 1 |-> dFuncDParameters(cands[k])],
                 basisDotData |-> [ic \in 0 .. nComponents - 1 |-> innerProduct(basisImgs(ic), g.img)]]
       IN  IF g.thrown = "LengthError"
           THEN UNCHANGED <<matA, vecB, idxWarn>>
           ELSE \E r \in {fillIc([A |-> matA, b |-> vecB, warn |-> idxWarn], c, 0, 0)} :
                   /\ matA' = r.A
                   /\ vecB' = r.b
                   /\ idxWarn' = r.warn
    /\ err' = "none"
    /\ last' = Called("fillAB", k, <<>>)
    /\ visits' = visits + 1
    /\ UNCHANGED <<cands, pca, nCount, chi2, image>>
    /\ UNCHANGED <<vars, pixvars, regvars, extvars>>

\* ---- subtractPsf --------------------------------------------------------
\* m is the image the PSF computes at column x; the sub-image of the data
\* under it is cut first, and the cut throws when the box leaves the data
subtractPsf(data, m, x) ==
    LET bbox == (x - StampW \div 2) - data.x0
        sub  == [img |-> [i \in StampCols |-> data.img[bbox + i]],
                 var |-> [i \in StampCols |-> data.var[bbox + i]]]
        r    == fitKernel(m, sub)
    IN  IF bbox < 0 \/ bbox + StampW > ParentW
        THEN [thrown |-> "LengthError", data |-> data]
        ELSE IF r.thrown = "RangeError"
        THEN [thrown |-> "RangeError", data |-> data]
        ELSE [thrown |-> "none",
              data |-> [data EXCEPT !.img = [i \in ParentCols |->
                            IF i >= bbox /\ i < bbox + StampW
                            THEN data.img[i] - Mul(m[i - bbox], r.amp)
                            ELSE data.img[i]]]]

SubtractPsf(x, m) ==
    /\ FitCanRun
    /\ \E r \in {subtractPsf(image, m, x)} :
          /\ image' = r.data
          /\ err' = r.thrown
    /\ last' = Called("subtractPsf", x, m)
    /\ visits' = visits + 1
    /\ UNCHANGED <<cands, pca, nCount, chi2, matA, vecB, idxWarn>>
    /\ UNCHANGED <<vars, pixvars, regvars, extvars>>

\* ---- fitKernelToImage ---------------------------------------------------
\* the sum of f over S
RECURSIVE SumSet(_, _)
SumSet(f, S) == IF S = {} THEN 0 ELSE LET x == CHOOSE y \in S : TRUE IN f[x] + SumSet(f, S \ {x})

\* A.ldlt().solve(b, &x) for one or two unknowns
solveNormal(n, A, b) ==
    IF n = 1
    THEN <<IF A[0, 0] = 0 THEN NonFinite ELSE (b[0] * Scale) \div A[0, 0]>>
    ELSE LET det == Mul(A[0, 0], A[1, 1]) - Mul(A[0, 1], A[1, 0])
         IN  IF det = 0 THEN <<NonFinite, NonFinite>>
             ELSE <<((Mul(b[0], A[1, 1]) - Mul(b[1], A[0, 1])) * Scale) \div det,
                    ((Mul(b[1], A[0, 0]) - Mul(b[0], A[1, 0])) * Scale) \div det>>

\* the sum over the stamp of (data - sum of x_i K_i)^2
residual(sub, x) ==
    SumSet([c \in StampCols |->
               LET model == SumSet([i \in 1 .. Len(x) |-> Mul(x[i], basisImgs(i - 1)[c])], 1 .. Len(x))
               IN  Mul(sub[c] - model, sub[c] - model)],
           StampCols)

\* variant that returns the residual of the fit as chi2
fitKernelToImageResidual(nKernel, data, pos) ==
    LET bbox == (pos - StampW \div 2) - data.x0
        sub == [c \in StampCols |-> data.img[bbox + c]]
        A == [ij \in (0 .. nKernel - 1) \X (0 .. nKernel - 1) |->
                 innerProduct(basisImgs(ij[1]), basisImgs(ij[2]))]
        b == [i \in 0 .. nKernel - 1 |-> innerProduct(basisImgs(i), sub)]
    IN  IF nKernel = 0 \/ bbox < 0 \/ bbox + StampW > ParentW
        THEN [thrown |-> "LengthError", built |-> FALSE, sub |-> <<>>, x |-> <<>>, chisq |-> 0]
        ELSE [thrown |-> "none", built |-> TRUE, sub |-> sub, x |-> solveNormal(nKernel, A, b),
              chisq |-> residual(sub, solveNormal(nKernel, A, b))]

\* nKernel is the length of the kernel's list of components, whose images are
\* moved to pos by whole pixels; the stamp under them is cut from the image
\* (which throws when the box leaves it); the normal equations are built only
\* past the test of nKernel; the result is the new kernel's parameters and chisq
fitKernelToImage(nKernel, data, pos) ==
    LET bbox == (pos - StampW \div 2) - data.x0
        sub == [c \in StampCols |-> data.img[bbox + c]]
        A == [ij \in (0 .. nKernel - 1) \X (0 .. nKernel - 1) |->
                 innerProduct(basisImgs(ij[1]), basisImgs(ij[2]))]
        b == [i \in 0 .. nKernel - 1 |-> innerProduct(basisImgs(i), sub)]
    IN  IF nKernel = 0 \/ bbox < 0 \/ bbox + StampW > ParentW
        THEN [thrown |-> "LengthError", built |-> FALSE, sub |-> <<>>, x |-> <<>>, chisq |-> 0]
        ELSE [thrown |-> "none", built |-> TRUE, sub |-> sub, x |-> solveNormal(nKernel, A, b),
              chisq |-> 0]

FitKernelToImage(nKernel, data, pos) ==
    /\ FitCanRun
    /\ \E r \in {fitKernelToImage(nKernel, data, pos)} :
          /\ err' = r.thrown
          /\ last' = [op |-> "fitKernelToImage", k |-> nKernel, m |-> r.sub, built |-> r.built,
                      x |-> r.x, chisq |-> r.chisq]
    /\ visits' = visits + 1
    /\ UNCHANGED <<cands, pca, nCount, chi2, matA, vecB, idxWarn, image>>
    /\ UNCHANGED <<vars, pixvars, regvars, extvars>>

InitFit ==
    /\ CRIdle
    /\ PixIdle
    /\ RegIdle
    /\ ExtIdle
    /\ cands \in [1 .. 2 -> CandInputs]
    /\ pca = <<>>
    /\ nCount = 0
    /\ chi2 = 0
    /\ matA = ZeroA
    /\ vecB = ZeroB
    /\ idxWarn = FALSE
    /\ image \in ImageInputs
    /\ err = "none"
    /\ last = Called("none", 0, <<>>)
    /\ visits = 0

NextFit ==
    \/ \E k \in 1 .. 2 : VisitPca(k)
    \/ \E k \in 1 .. 2 : VisitCount(k)
    \/ \E k \in 1 .. 2 : \E m \in ModelImages : VisitChi2(k, m)
    \/ \E k \in 1 .. 2 : VisitFillAB(k)
    \/ \E x \in {0, StampW \div 2} : \E m \in ModelImages : SubtractPsf(x, m)
    \/ \E nKernel \in 0 .. nComponents : \E data \in {image, ParentImage} : \E pos \in {StampW \div 2, ParentW} :
           FitKernelToImage(nKernel, data, pos)

SpecFit == InitFit /\ [][NextFit]_allvars

\* ---- properties of the fitting code -------------------------------------
\* C11: fitKernelToImage with an empty list of basis kernels fails with an
\* invalid-argument error and with no other kind, before a linear system is built
ClaimC11 ==
    (last.op = "fitKernelToImage" /\ last.k = 0) => (err = "InvalidParameter" /\ ~last.built)

\* the variance-weighted sum of the squared model over the pixels with variance
WeightedModelNorm(m, var) ==
    SumSet([x \in StampCols |-> (m[x] * m[x] * Scale) \div (IF var[x] = 0 THEN 1 ELSE var[x])],
           {x \in StampCols : var[x] # 0})

\* the stamp of the data under the PSF at column x
DataUnder(data, x) == [i \in StampCols |-> data.var[(x - StampW \div 2) - data.x0 + i]]

InData(x) == x - StampW \div 2 >= 0 /\ x - StampW \div 2 + StampW <= ParentW

StampFits(c) == c.xc - StampW \div 2 >= 0 /\ c.xc - StampW \div 2 + StampW <= ParentW

StampVar(c) == [i \in StampCols |-> ParentImage.var[c.xc - StampW \div 2 + i]]

\* C12: the amplitude fit fails with a range error exactly when the
\* variance-weighted sum of the squared model over the pixels with non-zero
\* variance is 0; subtractPsf then passes the error on and leaves image,
\* variance and mask alone, and evalChi2Visitor leaves the candidate's chi2 and
\* amplitude and the accumulated chi2 alone
ClaimC12 ==
    [][/\ (last'.op = "subtractPsf" /\ InData(last'.k)) =>
             /\ (err' = "RangeError") <=> (WeightedModelNorm(last'.m, DataUnder(image, last'.k)) = 0)
             /\ (err' = "RangeError") => image' = image
       /\ (last'.op = "chi2" /\ StampFits(cands[last'.k])) =>
             /\ (err' = "RangeError") <=> (WeightedModelNorm(last'.m, StampVar(cands[last'.k])) = 0)
             /\ (err' = "RangeError") => (cands' = cands /\ chi2' = chi2)]_allvars

\* a fit failed on a model with light in it, after another candidate was fitted
WitnessC12 ==
    /\ err = "RangeError"
    /\ last.op = "chi2"
    /\ \E x \in StampCols : last.m[x] # 0
    /\ chi2 > 0

\* C13: a candidate whose stamp falls off the parent image is passed over by
\* every visitor without an error, and the visit changes neither the PCA set,
\* the count, the total chi2, A, b nor the candidate's chi2 and amplitude
ClaimC13 ==
    [][(last'.op \in {"pca", "count", "chi2", "fillAB"} /\ ~StampFits(cands[last'.k])) =>
          /\ err' = "none"
          /\ pca' = pca
          /\ nCount' = nCount
          /\ chi2' = chi2
          /\ matA' = matA
          /\ vecB' = vecB
          /\ cands' = cands]_allvars

\* the counting visitor passed over a candidate after it had counted another
WitnessC13 ==
    /\ last.op = "count"
    /\ ~StampFits(cands[last.k])
    /\ nCount > 0

\* C14: whatever candidates FillABVisitor has processed, A is symmetric, and
\* index i stands for component i div S and coefficient i mod S
ClaimC14 ==
    /\ \A i \in 0 .. ABsize - 1 : \A j \in 0 .. ABsize - 1 : matA[<<i, j>>] = matA[<<j, i>>]
    /\ ~idxWarn

\* two candidates were processed and A has entries off the diagonal
WitnessC14 ==
    /\ last.op = "fillAB"
    /\ visits >= 2
    /\ \E k \in 1 .. 2 : k # last.k /\ StampFits(cands[k]) /\ StampFits(cands[last.k])
    /\ \E i \in 0 .. ABsize - 1 : \E j \in 0 .. ABsize - 1 : i # j /\ matA[<<i, j>>] # 0
    /\ \E i \in 0 .. ABsize - 1 : matA[<<i, i>>] > Scale

\* C29: the chi2 that fitKernelToImage returns is 0.0 whatever the kernel, the
\* image and the position, it is not computed from the residual of the fit,
\* and neither the image nor the candidates are modified
ClaimC29 ==
    [][(last'.op = "fitKernelToImage" /\ visits' = visits + 1) =>
          /\ image' = image
          /\ cands' = cands
          /\ err' = "none" => last'.chisq = 0]_allvars

\* a fit of one component that leaves a residual
WitnessC29 ==
    /\ last.op = "fitKernelToImage"
    /\ err = "none"
    /\ residual(last.m, last.x) # 0
    /\ last.chisq = 0

\* ======================================================================
\* The PSF factory registry: PSF.cc
\* ======================================================================
\* psfRegistry is the set of the map's (name, factory) pairs

NULL == "NULL"

Names == {"dgPSF", "pcaPSF", "sgPSF"}

\* factory objects a caller may hand to declare
Factories == {"factoryA", "factoryB"}

\* psfRegistry.find(name) != psfRegistry.end()
found(reg, name) == \E e \in reg : e[1] = name

\* (*el).second
second(reg, name) == (CHOOSE e \in reg : e[1] = name)[2]

\* PSF::_registry
_registry(reg, name, factory) ==
    IF ~found(reg, name)
    THEN IF factory # NULL
         THEN [reg |-> reg \cup {<<name, factory>>}, thrown |-> "none", result |-> factory]
         ELSE [reg |-> reg, thrown |-> "NotFound", result |-> NULL]
    ELSE IF factory = NULL
         THEN [reg |-> reg, thrown |-> "none", result |-> second(reg, name)]
         ELSE [reg |-> reg, thrown |-> "InvalidParameter", result |-> NULL]

\* PSF::declare
declare(name, factory) ==
    /\ \E r \in {_registry(psfRegistry, name, factory)} :
          /\ psfRegistry' = r.reg
          /\ regLast' = [op |-> "declare", name |-> name, factory |-> factory,
                         result |-> NULL, thrown |-> r.thrown]
          /\ declared' = IF r.thrown = "none" THEN declared \cup {<<name, factory>>} ELSE declared
    /\ UNCHANGED <<vars, pixvars, fitvars, extvars>>

\* PSF::lookup
lookup(name) ==
    /\ \E r \in {_registry(psfRegistry, name, NULL)} :
          /\ psfRegistry' = r.reg
          /\ regLast' = [op |-> "lookup", name |-> name, factory |-> NULL,
                         result |-> r.result, thrown |-> r.thrown]
    /\ UNCHANGED declared
    /\ UNCHANGED <<vars, pixvars, fitvars, extvars>>

InitReg ==
    /\ CRIdle
    /\ PixIdle
    /\ FitIdle
    /\ RegIdle
    /\ ExtIdle

NextReg ==
    \/ \E name \in Names : \E factory \in Factories \cup {NULL} : declare(name, factory)
    \/ \E name \in Names : lookup(name)

SpecReg == InitReg /\ [][NextReg]_allvars

\* C15: declaring a registered name fails with an invalid-argument error,
\* looking up a name never registered fails with a not-found error, a failed
\* call leaves the registry as it was, lookup never changes the registry, and
\* a lookup that succeeds returns the factory of the one declare of that name
\* that succeeded
ClaimC15 ==
    [][/\ (regLast'.op = "declare" /\ found(psfRegistry, regLast'.name)) =>
             (regLast'.thrown = "InvalidParameter" /\ psfRegistry' = psfRegistry)
       /\ (regLast'.op = "lookup" /\ ~found(psfRegistry, regLast'.name)) =>
             (regLast'.thrown = "NotFound" /\ psfRegistry' = psfRegistry)
       /\ regLast'.thrown # "none" => psfRegistry' = psfRegistry
       /\ regLast'.op = "lookup" => psfRegistry' = psfRegistry
       /\ (regLast'.op = "lookup" /\ regLast'.thrown = "none") =>
             {e \in declared : e[1] = regLast'.name} = {<<regLast'.name, regLast'.result>>}]_allvars

\* ======================================================================
\* The pixel test on its own: is_cr_pixel at the centre of a 3x3 neighbourhood
\* ======================================================================
\* the pixel under test
Centre == <<2, 2>>

\* levels of the centre and of one neighbour of each opposite pair
PeakVals == {Hot, 30 * Scale}
NeighbourVals == {0, 40 * Scale, 100 * Scale}

\* one neighbour of each of the pairs NS, WE, SW-NE, NW-SE
PairCells == [ns |-> <<2, 3>>, we |-> <<1, 2>>, swne |-> <<1, 1>>, nwse |-> <<1, 3>>]

\* backgrounds and PSFs the caller may pass; the PSFs differ in the
\* horizontal and the vertical neighbour
SkyVals == {0, 10 * Scale}
PsfInputs ==
    {[h |-> Scale \div 2, v |-> Scale \div 8, d |-> Scale \div 4],
     [h |-> Scale \div 8, v |-> Scale \div 2, d |-> Scale \div 4],
     [h |-> Scale \div 8, v |-> Scale \div 8, d |-> Scale \div 2]}

InitPixel ==
    /\ pc = "pixel"
    /\ \E pk \in PeakVals : \E f \in [{"ns", "we", "swne", "nwse"} -> NeighbourVals] :
          img = [p \in Pix |-> IF p = Centre THEN pk
                               ELSE IF p = PairCells.ns THEN f["ns"]
                               ELSE IF p = PairCells.we THEN f["we"]
                               ELSE IF p = PairCells.swne THEN f["swne"]
                               ELSE IF p = PairCells.nwse THEN f["nwse"]
                               ELSE 0]
    /\ variance = [p \in Pix |-> Scale]
    /\ mask = [p \in Pix |-> {}]
    /\ img0 = img
    /\ mask0 = mask
    /\ keep = FALSE
    /\ policy \in [e_per_dn : {Scale}, min_sigma : {Scale}, min_e : {80 * Scale},
                   cond3_fac : {2 * Scale}, cond3_fac2 : {Scale}, niteration : {0}]
    /\ origin = <<0, 0>>
    /\ crpixels = <<>>
    /\ ctr = 0
    /\ aliases = <<>>
    /\ spans = <<>>
    /\ CRs = <<>>
    /\ iter = 0
    /\ nextra = 0
    /\ writer = [p \in Pix |-> "none"]
    /\ oob = FALSE
    /\ single = [h_failed |-> TRUE, v_failed |-> TRUE, val_h |-> 0, val_v |-> 0]
    /\ psf \in PsfInputs
    /\ sky \in SkyVals
    /\ tested = NoTest
    /\ FitIdle
    /\ RegIdle
    /\ ExtIdle

\* one call of is_cr_pixel, as the sweep makes it
TestPixel ==
    /\ pc = "pixel"
    /\ ~tested.done
    /\ \E t \in {is_cr_pixel(img, Centre[1], Centre[2], ToInt(policy.min_sigma),
                             thres_h, thres_v, thres_d, sky, policy.e_per_dn, policy.cond3_fac)} :
          tested' = [done |-> TRUE, cr |-> t.cr, corr |-> t.corr, by |-> t.by]
    /\ UNCHANGED <<vars, psf, sky, fitvars, regvars, extvars>>

NextPixel == TestPixel

SpecPixel == InitPixel /\ [][NextPixel]_allvars

\* the means of the four pairs of neighbours of the centre, background included
PairMeans ==
    [ns   |-> (img[<<2, 1>>] + img[<<2, 3>>]) \div 2,
     we   |-> (img[<<1, 2>>] + img[<<3, 2>>]) \div 2,
     swne |-> (img[<<1, 1>>] + img[<<3, 3>>]) \div 2,
     nwse |-> (img[<<1, 3>>] + img[<<3, 1>>]) \div 2]

\* s = min_sigma * sqrt(variance)
SkySigma == Mul(policy.min_sigma, Sqrt(variance[Centre]))

\* C16: with min_sigma >= 0 a pixel that does not exceed every one of the four
\* neighbour means by s = min_sigma * sqrt(variance) is rejected under
\* Condition #2 and is never classified as a cosmic ray
ClaimC16 ==
    (/\ tested.done
     /\ policy.min_sigma >= 0
     /\ \E d \in {"ns", "we", "swne", "nwse"} : img[Centre] < PairMeans[d] + SkySigma)
    => (~tested.cr /\ (img[Centre] >= 0 => tested.by = "condition 2"))

\* the directions in the order of the test, the PSF value behind the threshold
\* of each, and the standard deviation of each mean
Directions == <<"ns", "we", "swne", "nwse">>

PsfFor == [ns |-> psf.v, we |-> psf.h, swne |-> psf.d, nwse |-> psf.d]

PairSigma ==
    [ns   |-> Sqrt(variance[<<2, 1>>] + variance[<<2, 3>>]) \div 2,
     we   |-> Sqrt(variance[<<1, 2>>] + variance[<<3, 2>>]) \div 2,
     swne |-> Sqrt(variance[<<1, 1>>] + variance[<<3, 3>>]) \div 2,
     nwse |-> Sqrt(variance[<<1, 3>>] + variance[<<3, 1>>]) \div 2]

\* the inequality of Condition #3 in direction d, on values without background
Satisfied(d) ==
    Mul(Mul(policy.cond3_fac2, PsfFor[d]),
        (img[Centre] - sky) - Mul(policy.cond3_fac, Sqrt(variance[Centre])))
      > (PairMeans[d] - sky) + Mul(policy.cond3_fac, PairSigma[d])

\* C17: Condition #3 takes the directions in the order NS, WE, SW-NE, NW-SE, with
\* the threshold from psf.value(1,0) for NS, psf.value(0,1) for WE and
\* psf.value(1,1) for the diagonals; a pixel that reaches it is a cosmic ray iff
\* some direction satisfies the inequality, and the estimate is the mean, with
\* the background, of the first direction that does
ClaimC17 ==
    (tested.done /\ tested.by \in {"none", "condition 3"}) =>
       /\ tested.cr <=> \E n \in 1 .. 4 : Satisfied(Directions[n])
       /\ tested.cr => \E n \in 1 .. 4 :
             /\ Satisfied(Directions[n])
             /\ \A m \in 1 .. n - 1 : ~Satisfied(Directions[m])
             /\ tested.corr = PairMeans[Directions[n]]

\* a pixel over a background was accepted in the WE direction although the NS
\* mean is another, and a diagonal satisfies the inequality too
WitnessC17 ==
    /\ tested.done
    /\ tested.cr
    /\ sky # 0
    /\ ~Satisfied("ns")
    /\ Satisfied("we")
    /\ Satisfied("swne")
    /\ PairMeans["we"] # PairMeans["ns"]
    /\ PairMeans["we"] # PairMeans["swne"]
    /\ psf.h # psf.v

\* ======================================================================
\* The growth loop with several passes
\* ======================================================================
\* the configured number of passes
MaxPasses == 3

\* a call with niteration = MaxPasses on the images of Init, at origin (0, 0)
InitGrow ==
    /\ pc = "start"
    /\ \E hs \in SUBSET HotCells :
          /\ Cardinality(hs) <= MaxHot
          /\ \E f \in [hs -> HotVals] : \E ws \in SUBSET WarmCells : \E ds \in SUBSET DimCells :
                img = [p \in Pix |-> IF p \in hs THEN f[p]
                                     ELSE IF p \in ws THEN Warm
                                     ELSE IF p \in ds THEN Dim ELSE bkgd]
    /\ variance = [p \in Pix |-> Scale]
    /\ \E bits \in {{}} \cup {{b} : b \in PreBits} :
          mask = [p \in Pix |-> IF p \in MaskCells THEN bits ELSE {}]
    /\ img0 = img
    /\ mask0 = mask
    /\ keep \in BOOLEAN
    /\ policy = [e_per_dn |-> Scale, min_sigma |-> Scale, min_e |-> 80 * Scale,
                 cond3_fac |-> 2 * Scale, cond3_fac2 |-> Scale \div 2, niteration |-> MaxPasses]
    /\ origin = <<0, 0>>
    /\ crpixels = <<>>
    /\ ctr = 0
    /\ aliases = <<>>
    /\ spans = <<>>
    /\ CRs = <<>>
    /\ iter = 0
    /\ nextra = 0
    /\ writer = [p \in Pix |-> "none"]
    /\ oob = FALSE
    /\ single \in SinglePixelCases
    /\ psf = psfValue
    /\ sky = bkgd
    /\ tested = NoTest
    /\ FitIdle
    /\ RegIdle
    /\ ExtIdle

SpecGrow == InitGrow /\ [][Next]_allvars

\* C21: the growth loop runs at most niteration passes, and a pass that adds no
\* pixel is the last one, whatever earlier passes added
ClaimC21 ==
    [][/\ iter' <= policy.niteration
       /\ (pc = "grow" /\ iter # policy.niteration /\ nextra' = nextra) =>
             (pc' # "grow" \/ iter' = policy.niteration)]_allvars

\* ======================================================================
\* createKernelFromPsfCandidates: the background of the eigen-images
\* ======================================================================
\* the eigen-images ImagePca hands back: square, of side 1 to 5, a flat level
\* with at most one pixel that stands out
EigenInputs ==
    {[width |-> w, height |-> w,
      pix |-> [p \in (0 .. w - 1) \X (0 .. w - 1) |-> IF p = q THEN base + Scale ELSE base]] :
        w \in 1 .. 5, q \in (0 .. 5) \X (0 .. 5), base \in {0, Scale}}

\* ncomp = (nEigenComponents <= 0 || nEigen < nEigenComponents) ? nEigen : nEigenComponents
ncomp(nEigen) == IF nEigenComponents <= 0 \/ nEigen < nEigenComponents THEN nEigen ELSE nEigenComponents

\* bkg_border after the two tests of an image
clampBorder(b, im) ==
    LET b1 == IF b > im.width THEN im.width ELSE b
    IN  IF b1 > im.height THEN im.height ELSE b1

\* the first loop: rows i and height - i - 1 for i < bkg_border, every column
RECURSIVE sumBottomTop(_, _, _, _)
sumBottomTop(im, b, i, j) ==
    IF i = b THEN [sum |-> 0, n |-> 0]
    ELSE IF j = im.width THEN sumBottomTop(im, b, i + 1, 0)
    ELSE LET r == sumBottomTop(im, b, i, j + 1)
         IN  [sum |-> r.sum + im.pix[<<j, i>>] + im.pix[<<j, im.height - i - 1>>], n |-> r.n + 2]

\* the second loop: ptrL walks the first bkg_border pixels of row i; ptrR is
\* row_begin(width - i - 1) and is never advanced
RECURSIVE sumLeftRight(_, _, _, _)
sumLeftRight(im, b, i, j) ==
    IF i >= im.height - b THEN [sum |-> 0, n |-> 0]
    ELSE IF j = b THEN sumLeftRight(im, b, i + 1, 0)
    ELSE LET r == sumLeftRight(im, b, i, j + 1)
         IN  [sum |-> r.sum + im.pix[<<j, i>>] + im.pix[<<0, im.width - i - 1>>], n |-> r.n + 2]

\* the level taken off one image: sum /= 2*(bkg_border*width + bkg_border*(height - 2*bkg_border))
borderLevel(im, b) ==
    LET tb == sumBottomTop(im, b, 0, 0)
        lr == sumLeftRight(im, b, b, 0)
    IN  [sum |-> tb.sum + lr.sum, n |-> tb.n + lr.n,
         div |-> 2 * (b * im.width + b * (im.height - 2 * b))]

\* *eigenImages[k] -= sum
subtractLevel(im, lev) ==
    [im EXCEPT !.pix = [p \in DOMAIN im.pix |->
                           IF lev.div = 0 THEN NonFinite ELSE im.pix[p] - lev.sum \div lev.div]]

\* the loop over the components kept; r = [imgs, levels, border]
RECURSIVE subtractBackground(_, _, _)
subtractBackground(k, nc, r) ==
    IF k > nc THEN r
    ELSE LET b == clampBorder(r.border, r.imgs[k])
             lev == borderLevel(r.imgs[k], b)
         IN  subtractBackground(k + 1, nc,
                                [imgs |-> [r.imgs EXCEPT ![k] = subtractLevel(r.imgs[k], lev)],
                                 levels |-> Append(r.levels, lev),
                                 border |-> b])

SubtractBackground ==
    /\ eigenImages # <<>>
    /\ bkg = <<>>
    /\ \E r \in {subtractBackground(1, ncomp(Len(eigenImages)),
                                    [imgs |-> eigenImages, levels |-> <<>>, border |-> 2])} :
           /\ eigenImages' = r.imgs
           /\ bkg' = r.levels
    /\ UNCHANGED nEigenComponents
    /\ UNCHANGED <<vars, pixvars, fitvars, regvars, linvars, spanvars>>

InitBkg ==
    /\ CRIdle
    /\ PixIdle
    /\ FitIdle
    /\ RegIdle
    /\ \E a \in EigenInputs : \E b \in {e \in EigenInputs : e.width = a.width /\ e.pix[<<0, 0>>] = 0} :
           eigenImages \in {<<a>>, <<a, b>>}
    /\ nEigenComponents \in 0 .. 2
    /\ bkg = <<>>
    /\ LinIdle
    /\ SpanIdle

SpecBkg == InitBkg /\ [][SubtractBackground]_allvars

\* the outer frame of width b of an image, and the sum of its pixels
Frame(im, b) ==
    {p \in DOMAIN im.pix : \/ p[1] < b \/ p[1] >= im.width - b
                           \/ p[2] < b \/ p[2] >= im.height - b}

FrameSum(im, b) == SumSet(im.pix, Frame(im, b))

\* C26: the value createKernelFromPsfCandidates subtracts from each kept
\* eigen-image is the arithmetic mean of the pixels of its outer frame of
\* width min(2, width, height), each frame pixel counted once
ClaimC26 ==
    [][(bkg = <<>> /\ bkg' # <<>>) =>
          \A k \in 1 .. Len(bkg') :
              LET im == eigenImages[k]
                  fr == Frame(im, clampBorder(2, im))
              IN  /\ bkg'[k].div # 0
                  /\ bkg'[k].sum * Cardinality(fr) = SumSet(im.pix, fr) * bkg'[k].div]_allvars

\* ======================================================================
\* fitSpatialKernelFromPsfCandidates, the linear fit
\* ======================================================================
\* what A.ldlt().solve(b, &x) may leave in x: the same finite value in each
\* entry, or no finite value when A is singular
Solutions(n) == {[i \in 1 .. n |-> v] : v \in {0, Scale, 2 * Scale, NonFinite}}

\* visitCandidates(&getAB, nStarPerCell, true): the first nStarPerCell
\* candidates of the cell, all of them when nStarPerCell <= 0
nVisited(cs, nStarPerCell) ==
    IF nStarPerCell <= 0 \/ nStarPerCell > Len(cs) THEN Len(cs) ELSE nStarPerCell

\* FillABVisitor::processCandidate over these candidates: the number of them
\* that added to A and b (a stamp off the parent image is passed over)
RECURSIVE fillAB(_, _)
fillAB(cs, n) ==
    IF n = 0 THEN 0
    ELSE fillAB(cs, n - 1) + (IF getImage(cs[n]).thrown = "LengthError" THEN 0 ELSE 1)

\* evalChi2Visitor::processCandidate over all the candidates with the kernel
\* image m; r = [cands, chi2, thrown]
RECURSIVE evalChi2(_, _, _)
evalChi2(m, k, r) ==
    IF k > Len(r.cands) THEN r
    ELSE LET g == getImage(r.cands[k])
             f == fitKernel(m, g)
         IN  IF g.thrown = "LengthError" THEN evalChi2(m, k + 1, r)
             ELSE IF f.thrown = "RangeError" THEN evalChi2(m, k + 1, [r EXCEPT !.thrown = "RangeError"])
             ELSE evalChi2(m, k + 1, [r EXCEPT !.cands[k].chi2 = f.chi2, !.cands[k].amp = f.amp,
                                               !.chi2 = r.chi2 + f.chi2])

\* the cast of the kernel, the FillABVisitor and its pass over the candidates
LinFill ==
    /\ linPc = "start"
    /\ IF ~linCall.isLinearCombination
       THEN /\ linPc' = "thrown"
            /\ linOut' = [linOut EXCEPT !.thrown = "LogicError"]
       ELSE /\ linPc' = "filled"
            /\ linOut' = [linOut EXCEPT
                   !.bSize = linKernel.nComponents * linKernel.nSpatialParams,
                   !.nFilled = fillAB(linCall.cands, nVisited(linCall.cands, linCall.nStarPerCell))]
    /\ UNCHANGED <<linKernel, linCall>>
    /\ UNCHANGED <<vars, pixvars, fitvars, regvars, bkgvars, spanvars>>

\* variant without the assertion
LinAssertOff ==
    /\ linPc = "filled"
    /\ linPc' = "solve"
    /\ UNCHANGED <<linKernel, linCall, linOut>>
    /\ UNCHANGED <<vars, pixvars, fitvars, regvars, bkgvars, spanvars>>

\* assert(b.size() > 1)
LinAssert ==
    /\ linPc = "filled"
    /\ linPc' = IF linOut.bSize > 1 THEN "solve" ELSE "asserted"
    /\ UNCHANGED <<linKernel, linCall, linOut>>
    /\ UNCHANGED <<vars, pixvars, fitvars, regvars, bkgvars, spanvars>>

\* A.ldlt().solve(b, &x); setSpatialParameters(kernel, x)
LinSolve ==
    /\ linPc = "solve"
    /\ \E x \in Solutions(linOut.bSize) :
           linKernel' = [linKernel EXCEPT !.params = [i \in 1 .. linOut.bSize |-> x[i]]]
    /\ linPc' = "chi2"
    /\ UNCHANGED <<linCall, linOut>>
    /\ UNCHANGED <<vars, pixvars, fitvars, regvars, bkgvars, spanvars>>

\* visitAllCandidates(&getChi2, true) and the return: an exception of a
\* candidate is passed over or leaves the call, as SpatialCellSet decides
LinChi2 ==
    /\ linPc = "chi2"
    /\ \E m \in ModelImages :
       \E r \in {evalChi2(m, 1, [cands |-> linCall.cands, chi2 |-> 0, thrown |-> "none"])} :
           /\ linCall' = [linCall EXCEPT !.cands = r.cands]
           /\ \/ /\ linPc' = "returned"
                 /\ linOut' = [linOut EXCEPT !.chi2 = r.chi2, !.isValid = TRUE]
              \/ /\ r.thrown # "none"
                 /\ linPc' = "thrown"
                 /\ linOut' = [linOut EXCEPT !.thrown = r.thrown]
    /\ UNCHANGED linKernel
    /\ UNCHANGED <<vars, pixvars, fitvars, regvars, bkgvars, spanvars>>

\* the kernels handed in have one or two components and a spatial polynomial
\* of order 0 or 1 in the column, the constant term of each component 1; the
\* one cell holds up to two of CandInputs
InitLin ==
    /\ CRIdle
    /\ PixIdle
    /\ FitIdle
    /\ RegIdle
    /\ BkgIdle
    /\ SpanIdle
    /\ linPc = "start"
    /\ \E n \in 1 .. 2 : \E sp \in 1 .. 2 :
           linKernel = [nComponents |-> n, nSpatialParams |-> sp,
                        params |-> [i \in 1 .. n * sp |-> IF (i - 1) % sp = 0 THEN Scale ELSE 0]]
    /\ \E a \in CandInputs : \E b \in CandInputs : \E cs \in {<<>>, <<a>>, <<a, b>>} :
       \E np \in 0 .. 1 : \E lc \in BOOLEAN :
           linCall = [cands |-> cs, nStarPerCell |-> np, isLinearCombination |-> lc]
    /\ linOut = [bSize |-> 0, nFilled |-> 0, chi2 |-> 0, thrown |-> "none", isValid |-> FALSE]

NextLin ==
    \/ LinFill
    \/ LinAssert
    \/ LinSolve
    \/ LinChi2

SpecLin == InitLin /\ [][NextLin]_allvars

\* C27: the linear fit needs more than one unknown: with N*S <= 1 the call
\* fails an assertion after the normal equations are filled and before the
\* kernel's spatial parameters are modified; with N*S > 1 the assertion holds
\* and a call that returns returns isValid = true, whatever the solve left
ClaimC27 ==
    [][LET NS == linKernel.nComponents * linKernel.nSpatialParams
       IN  /\ NS <= 1 => (linKernel' = linKernel /\ linPc' \notin {"solve", "chi2", "returned"})
           /\ (linPc = "filled" /\ NS <= 1) => linPc' = "asserted"
           /\ (linPc' = "asserted" /\ linPc # "asserted") =>
                  (linPc = "filled" /\ linOut.bSize = NS /\ NS <= 1)
           /\ NS > 1 => linPc' # "asserted"
           /\ (linPc' = "returned" /\ NS > 1) => linOut'.isValid]_allvars

\* one component of order 0, a candidate has been added to the normal
\* equations, the assertion has failed and the parameters are untouched
WitnessC27 ==
    /\ linPc = "asserted"
    /\ linKernel.nComponents * linKernel.nSpatialParams = 1
    /\ linOut.nFilled > 0
    /\ linKernel.params = <<Scale>>

\* ======================================================================
\* findCosmicRays: the pixels a growth pass tests around one span
\* ======================================================================
\* the pixels checkSpanForCRs hands to is_cr_pixel: x0 - 1 .. x1 + 1 of row y
testedPixels(y, x0, x1) == {<<x, y>> : x \in x0 - 1 .. x1 + 1}

\* the body of the loop over the spans of a CR, for the span spanIn
GrowOneSpan ==
    /\ ~spanOut.done
    /\ spanIn.ncol > 0
    /\ LET x0 == clampColumn(spanIn.x0, spanIn.ncol)
           x1 == clampColumn(spanIn.x1, spanIn.ncol)
       IN  spanOut' = [done |-> TRUE,
                       tested |-> IF rowSkipped(spanIn.y, spanIn.nrow) THEN {}
                                  ELSE testedPixels(spanIn.y - 1, x0, x1)
                                       \cup testedPixels(spanIn.y, x0, x1)
                                       \cup testedPixels(spanIn.y + 1, x0, x1)]
    /\ UNCHANGED spanIn
    /\ UNCHANGED <<vars, pixvars, fitvars, regvars, bkgvars, linvars>>

\* images of 3 to 6 columns and rows; a span of a CR lies in the interior,
\* where the sweep and the growth test pixels
InitSpan ==
    /\ CRIdle
    /\ PixIdle
    /\ FitIdle
    /\ RegIdle
    /\ BkgIdle
    /\ LinIdle
    /\ \E nc \in 3 .. 6 : \E nr \in 3 .. 6 :
       \E y \in 1 .. nr - 2 : \E x0 \in 1 .. nc - 2 : \E x1 \in x0 .. nc - 2 :
           spanIn = [ncol |-> nc, nrow |-> nr, y |-> y, x0 |-> x0, x1 |-> x1]
    /\ spanOut = [done |-> FALSE, tested |-> {}]

SpecSpan == InitSpan /\ [][GrowOneSpan]_allvars

\* C28: every pixel a growth pass hands to is_cr_pixel, and each of its 8
\* neighbours, lies inside the image, whatever the size of the image (3x3 or
\* more) and the place of the span
ClaimC28 ==
    spanOut.done =>
        \A p \in spanOut.tested : \A dx \in -1 .. 1 : \A dy \in -1 .. 1 :
            /\ p[1] + dx \in 0 .. spanIn.ncol - 1
            /\ p[2] + dy \in 0 .. spanIn.nrow - 1

====
